---- MODULE Spec2Model ----
(***************************************************************************)
(* Model of BrowserManager (browser-manager.ts) and of the browser_connect *)
(* command handler (tools.ts): the connection strategy chain, the page     *)
(* registry, the per-page telemetry buffers, request blocking and storage  *)
(* state; and of the human-like interaction helpers (human.ts).            *)
(*                                                                         *)
(* Every async method is split at its awaits: the part of a method between *)
(* two awaits is one action.  The driver (Playwright, the spawned browser, *)
(* the debug endpoint) is the environment: each of its answers is a        *)
(* nondeterministic choice.  Commands (connect, close, newPage, closePage)  *)
(* are issued while fewer than MaxConcurrent of them are in flight, and    *)
(* one connect call at a time; page events and telemetry events interleave *)
(* with the commands in flight.  The loops of applyRouteBlocking,          *)
(* block_urls, saveStorageState and loadStorageState are taken in one step *)
(* each; the samples of a pointer path are drawn as they are sent.         *)
(***************************************************************************)
EXTENDS Integers, Sequences, FiniteSets, TLC

\* ---------------------------------------------------------------- bounds
MaxConnects == 2    \* browser_connect commands issued in one behaviour
MaxHandles  == 2    \* page handles the driver hands out in one behaviour
MaxEvents   == 2    \* telemetry events delivered in one behaviour
MaxConcurrent == 2  \* commands in flight (suspended at an await) at one time
MaxCloses   == 1    \* close() calls in one behaviour
MaxPatterns == 2    \* entries of the blocked-pattern list
MaxRules    == 3    \* abort rules installed on one context
MaxText     == 2    \* characters of a text given to humanType

\* ------------------------------------------------------ program constants
BufferCap    == 500      \* logs.length < 500
MaxWait      == 15000    \* const maxWait = 15_000
PollInterval == 500      \* const interval = 500
DefaultPort  == 9222     \* spawnChromeAndConnect(userDataDir, port = 9222)

NULL == 0
None == "none"

DefaultCdpUrl == "http://localhost:9222"
RemoteCdpUrl  == "http://remote:9333"
ProfileDir    == "profile"

Engines == {"chromium", "firefox"}

\* The substrings launchPersistent looks for in a launch error's message.
\* An error message is modelled by the set of these substrings it contains.
FallbackMarkers == {"non-default data directory", "remote debugging"}
LockMarkers     == {"lock", "already running", "SingletonLock"}

\* Launch error messages the driver may produce: none of the substrings,
\* one lock substring, the real Chrome refusal (both fallback substrings),
\* and a refusal whose message also holds a lock substring (as when the
\* launch command line, with --disable-popup-blocking, is part of it).
LaunchErrorMessages ==
    { {},
      {"lock"},
      {"already running"},
      {"SingletonLock"},
      {"non-default data directory", "remote debugging"},
      {"remote debugging", "lock"} }

VARIABLES
    \* BrowserManager fields
    options,        \* this.options (cdpUrl, userDataDir, browser)
    browser,        \* this.browser: a browser handle or NULL
    context,        \* this.context: a context handle or NULL
    pages,          \* this.pages: id -> page handle
    nextPageId,     \* this.nextPageId
    consoleLogs,    \* this.consoleLogs: id -> sequence of entries
    networkLogs,    \* this.networkLogs: id -> sequence of entries
    chromeProcess,  \* this.chromeProcess: a process handle or NULL
    blockedPatterns,\* this.blockedPatterns: sequence of patterns
    \* the driver
    browserInfo,    \* browser handle -> [kind, engine, open]
    ctxInfo,        \* context handle -> [kind, open, listeners]
    pageCtx,        \* page handle -> context handle
    openPages,      \* page handles not yet closed
    pageEvQ,        \* page handles whose page-created event is not delivered
    trackers,       \* <<page handle, id>>: setupPageTracking(page, id) ran
    pending,        \* <<page handle, id>> -> pendingRequests (url -> record)
    processes,      \* process handle -> "running" | "killed"
    routes,         \* context handle -> patterns of its abort rules, in order
    jar,            \* context handle -> the cookies of the context
    localStorage,   \* <<context handle, origin>> -> local-storage entries
    pageOrigin,     \* page handle -> origin of the document it shows
    files,          \* path -> storage state written there
    lastMousePos,   \* page.__lastMousePos of the page that takes the input
    pointer,        \* where the driver last put the pointer of that page
    dev,            \* the last input command or timer of the helpers
    \* human-interaction helpers
    calls,          \* call id -> the helper call: arguments and position
    now,            \* Date.now()
    \* control
    conn,           \* the connect call: position, attempts made, outcome
    inflight,       \* registry commands suspended at an await
    ret,            \* what the step returned or delivered (empty otherwise)
    closing,        \* position of the close() call in flight
    held,           \* the array a reader operation returned to its caller
    \* history
    assigned,       \* every id assigned to a page, in order
    connects,       \* browser_connect commands issued
    closes,         \* close() calls issued
    events          \* telemetry events delivered and pushes by callers

vars == << options, browser, context, pages, nextPageId, consoleLogs,
           networkLogs, chromeProcess, blockedPatterns, routes, jar,
           localStorage, pageOrigin, files, lastMousePos, pointer, dev,
           calls, browserInfo, ctxInfo, pageCtx,
           openPages, pageEvQ, trackers, pending, processes, now, conn,
           inflight, ret, closing, held, assigned, connects, closes,
           events >>

\* The state of the facilities besides connection, registry and telemetry.
blockVars == << blockedPatterns, routes >>
storageVars == << jar, localStorage, pageOrigin, files >>
inputVars == << lastMousePos, pointer, dev, calls >>
auxVars == << blockVars, storageVars, inputVars >>

managerVars == << browser, context, pages, nextPageId, consoleLogs,
                  networkLogs, chromeProcess >>
registryVars == << pages, nextPageId, consoleLogs, networkLogs, assigned,
                   trackers, pending >>
driverVars == << browserInfo, ctxInfo, pageCtx, openPages, pageEvQ,
                 processes >>

\* ------------------------------------------------------------- helpers
Put(f, k, v) == [x \in (DOMAIN f) \cup {k} |-> IF x = k THEN v ELSE f[x]]
Remove(f, k) == [x \in (DOMAIN f) \ {k} |-> f[x]]
EmptyMap == [x \in {} |-> 0]

Max(S) == CHOOSE m \in S : \A x \in S : x <= m

\* A set of naturals as the ascending sequence of its elements.
RECURSIVE Ascending(_)
Ascending(S) ==
    IF S = {} THEN << >>
    ELSE LET m == CHOOSE x \in S : \A y \in S : x <= y
         IN  << m >> \o Ascending(S \ {m})

NewHandle(f) == Cardinality(DOMAIN f) + 1

\* What the step did for its caller: the page (id, handle) or the failure a
\* command returned, or the telemetry event delivered to page h.  ret holds
\* it in the state the step leads to, and is empty after every other step.
Ret(op, status, id, h) == [op |-> op, status |-> status, id |-> id, h |-> h]

NoRet == Ret(None, None, 0, 0)

\* A telemetry event delivered to page h: a request or a response of the
\* URL url.
Delivered(op, h, url) ==
    [op |-> op, status |-> "delivered", id |-> 0, h |-> h, url |-> url]

\* ------------------------------------------------------------- errors
Err(kind) ==
    [kind |-> kind, markers |-> {}, seconds |-> 0,
     needsCdpFallback |-> FALSE, remediation |-> FALSE]

NoErr == Err("none")

\* LaunchPersistentError asking for the fallback on a lock message as well.
LaunchPersistentErrorAllFallback(m) ==
    IF m \cap (FallbackMarkers \cup LockMarkers) # {}
    THEN [Err("NEEDS_CDP_FALLBACK") EXCEPT !.markers = m,
                                           !.needsCdpFallback = TRUE]
    ELSE [Err("DriverLaunchError") EXCEPT !.markers = m]

\* launchPersistent's catch block: the error it throws for a driver error
\* whose message holds the substrings m.
LaunchPersistentError(m) ==
    IF m \cap FallbackMarkers # {}
    THEN [Err("NEEDS_CDP_FALLBACK") EXCEPT !.markers = m,
                                           !.needsCdpFallback = TRUE]
    ELSE IF m \cap LockMarkers # {}
    THEN [Err("ProfileLocked") EXCEPT !.markers = m, !.remediation = TRUE]
    ELSE [Err("DriverLaunchError") EXCEPT !.markers = m]

\* The error spawnChromeAndConnect throws after the wait: its message
\* names maxWait / 1000 seconds.
TimeoutError == [Err("ChromeDidNotStart") EXCEPT !.seconds = MaxWait \div 1000]

\* ------------------------------------------------------------ options
\* this.options after the constructor (browser defaults to chromium).
StartupOptions ==
    [cdpUrl : {None, RemoteCdpUrl}, userDataDir : {None, ProfileDir},
     browser : Engines]

\* Arguments of one browser_connect command (None: argument absent).
ConnectArgs ==
    [cdpUrl : {None, RemoteCdpUrl}, userDataDir : {None, ProfileDir},
     browserEngine : {None} \cup Engines]

\* browser_connect: only the arguments that are present overwrite options.
MergeOptions(o, a) ==
    [cdpUrl      |-> IF a.cdpUrl # None THEN a.cdpUrl ELSE o.cdpUrl,
     userDataDir |-> IF a.userDataDir # None THEN a.userDataDir
                                             ELSE o.userDataDir,
     browser     |-> IF a.browserEngine # None THEN a.browserEngine
                                               ELSE o.browser]

\* getBrowserType ignoring options.browser.
getBrowserTypeChromium(o) == "chromium"

\* getBrowserType(): the engine launchPersistent / launchTemporary launch.
getBrowserType(o) ==
    CASE o.browser = "firefox" -> "firefox"
      [] o.browser = "webkit"  -> "webkit"
      [] OTHER                 -> "chromium"

\* getBrowserInfo().engine
getBrowserInfoEngine(o) == o.browser

\* connectCDP: cdpUrl ?? this.options.cdpUrl ?? "http://localhost:9222"
ConnectCdpUrl(arg, o) ==
    IF arg # None THEN arg
    ELSE IF o.cdpUrl # None THEN o.cdpUrl
    ELSE DefaultCdpUrl

\* spawnChromeAndConnect: `http://localhost:${port}`
DerivedCdpUrl(port) ==
    IF port = 9222 THEN "http://localhost:9222" ELSE "http://localhost:other"

\* ------------------------------------------------------- the registry
\* The registry fields as one record, so that a loop over pages is a fold.
\* The array a reader operation returned to its caller: of which buffer
\* map (kind) and id, whether it still is the array the map holds for the
\* id (live), what it holds when it is not (own), and whether the caller
\* has pushed onto it.
NoHeld ==
    [kind |-> None, id |-> 0, live |-> FALSE, own |-> << >>,
     pushed |-> FALSE]

\* What the caller reads in the array it holds.
HeldValue ==
    IF held.live
    THEN IF held.kind = "console" THEN consoleLogs[held.id]
                                  ELSE networkLogs[held.id]
    ELSE held.own

\* The array the caller holds once the console map has dropped or replaced
\* the arrays of the ids cids and the network map those of the ids nids:
\* the caller keeps the array, with what it held.
Detached(cids, nids) ==
    IF held.live /\ held.id \in (IF held.kind = "console" THEN cids ELSE nids)
    THEN [held EXCEPT !.live = FALSE, !.own = HeldValue]
    ELSE held

Registry ==
    [pages |-> pages, nextPageId |-> nextPageId, consoleLogs |-> consoleLogs,
     networkLogs |-> networkLogs, assigned |-> assigned,
     trackers |-> trackers, pending |-> pending]

\* RegisterPage taking the id from the size of the registry instead of the
\* counter.
RegisterPageBySize(r, h) ==
    LET id == Cardinality(DOMAIN r.pages) + 1
    IN  [pages       |-> Put(r.pages, id, h),
         nextPageId  |-> id + 1,
         consoleLogs |-> Put(r.consoleLogs, id, << >>),
         networkLogs |-> Put(r.networkLogs, id, << >>),
         assigned    |-> Append(r.assigned, id),
         trackers    |-> r.trackers \cup {<< h, id >>},
         pending     |-> Put(r.pending, << h, id >>, EmptyMap)]

\* const id = this.nextPageId++; this.pages.set(id, page);
\* this.setupPageTracking(page, id)
RegisterPage(r, h) ==
    LET id == r.nextPageId
    IN  [pages       |-> Put(r.pages, id, h),
         nextPageId  |-> id + 1,
         consoleLogs |-> Put(r.consoleLogs, id, << >>),
         networkLogs |-> Put(r.networkLogs, id, << >>),
         assigned    |-> Append(r.assigned, id),
         trackers    |-> r.trackers \cup {<< h, id >>},
         pending     |-> Put(r.pending, << h, id >>, EmptyMap)]

\* for (const page of this.context.pages()) { ...register... }
RECURSIVE RegisterAll(_, _)
RegisterAll(r, hs) ==
    IF hs = << >> THEN r
    ELSE RegisterAll(RegisterPage(r, Head(hs)), Tail(hs))

SetRegistry(r) ==
    /\ pages' = r.pages
    /\ nextPageId' = r.nextPageId
    /\ consoleLogs' = r.consoleLogs
    /\ networkLogs' = r.networkLogs
    /\ assigned' = r.assigned
    /\ trackers' = r.trackers
    /\ pending' = r.pending

\* The registry r as the state's registry.
SetInitRegistry(r) ==
    /\ pages = r.pages
    /\ nextPageId = r.nextPageId
    /\ consoleLogs = r.consoleLogs
    /\ networkLogs = r.networkLogs
    /\ assigned = r.assigned
    /\ trackers = r.trackers
    /\ pending = r.pending

\* context.pages(): the pages of a context the driver has reported (op:
\* open, and their page-created event has been emitted), oldest first.
ContextPages(c, pc, op) == Ascending({h \in DOMAIN pc : pc[h] = c} \cap op)

\* ------------------------------------------------------------- connect
Attempt(s, branch, url) == [s |-> s, branch |-> branch, url |-> url]
Msg(kind, detail) == [kind |-> kind, detail |-> detail]
NoMsg == Msg(None, None)

IdleConn ==
    [pc |-> "idle", branch |-> None, url |-> None, attempts |-> << >>,
     waited |-> 0, polls |-> 0, ready |-> FALSE, engine |-> None,
     launchErr |-> NoErr,
     msg |-> NoMsg, err |-> NoErr]

Settled == {"idle", "returned", "thrown"}

\* The commands in flight.
Busy ==
    (IF conn.pc \in Settled THEN 0 ELSE 1)
    + (IF closing.pc = "idle" THEN 0 ELSE 1)
    + Cardinality(inflight)

Return(c, m) == [c EXCEPT !.pc = "returned", !.msg = m]
Throw(c, e)  == [c EXCEPT !.pc = "thrown", !.err = e]

\* connectCDP up to its first await (chromium.connectOverCDP(url)).
CallConnectCDP(c, branch, arg, o) ==
    LET url == ConnectCdpUrl(arg, o)
    IN  [c EXCEPT !.pc = "cdpConnect", !.branch = branch, !.url = url,
                  !.attempts = Append(@, Attempt("attach", branch, url))]

\* launchPersistent up to its first await (launchPersistentContext).
CallLaunchPersistent(c, o) ==
    [c EXCEPT !.pc = "persistLaunch", !.branch = "persistent",
              !.engine = getBrowserType(o),
              !.attempts = Append(@, Attempt("persistent", "persistent", None))]

\* launchTemporary up to its first await (browserType.launch).
CallLaunchTemporary(c, o) ==
    [c EXCEPT !.pc = "tempLaunch", !.branch = "ephemeral",
              !.engine = getBrowserType(o),
              !.attempts = Append(@, Attempt("ephemeral", "ephemeral", None))]

\* StartConnect testing the profile directory before the attach URL.
StartConnectProfileFirst(o) ==
    IF o.userDataDir # None THEN CallLaunchPersistent(IdleConn, o)
    ELSE IF o.cdpUrl # None
    THEN CallConnectCDP(IdleConn, "configured", None, o)
    ELSE CallConnectCDP(IdleConn, "default", DefaultCdpUrl, o)

\* connect() up to its first await.
StartConnect(o) ==
    IF o.cdpUrl # None THEN CallConnectCDP(IdleConn, "configured", None, o)
    ELSE IF o.userDataDir # None THEN CallLaunchPersistent(IdleConn, o)
    ELSE CallConnectCDP(IdleConn, "default", DefaultCdpUrl, o)

\* needsCdpFallback recovering from every launch error.
needsCdpFallbackAny(e) == TRUE

\* connect()'s catch around launchPersistent: if (err.needsCdpFallback)
needsCdpFallback(e) == e.needsCdpFallback

\* PollAgain with <= for <.
PollAgainInclusive(waited) == waited <= MaxWait

\* spawnChromeAndConnect's loop condition: while (waited < maxWait)
PollAgain(waited) == waited < MaxWait

\* AttachThrew without the try around the default attach.
AttachThrewRethrow(c, e, o) == Throw(c, e)

\* What connect() does with an error thrown by connectCDP: the default
\* attach sits in a try whose catch launches the temporary browser; the
\* configured attach and the attach of the recovery are not caught.
AttachThrew(c, e, o) ==
    IF c.branch = "default" THEN CallLaunchTemporary(c, o) ELSE Throw(c, e)

\* The message connect() returns after connectCDP returned.
AttachReturned(c, o) ==
    CASE c.branch = "configured" -> Return(c, Msg("cdp", o.cdpUrl))
      [] c.branch = "default"    -> Return(c, Msg("cdp", DefaultCdpUrl))
      [] OTHER                   -> Return(c, Msg("spawned", c.url))

\* The browser_connect command: merge the arguments into the options, then
\* connect().
BrowserConnect(a) ==
    /\ conn.pc \in Settled
    /\ Busy < MaxConcurrent
    /\ connects < MaxConnects
    /\ connects' = connects + 1
    /\ options' = MergeOptions(options, a)
    /\ conn' = StartConnect(options')
    /\ ret' = NoRet
    /\ UNCHANGED << auxVars, held, managerVars, driverVars, trackers,
                    pending, now, inflight, closing, assigned, closes,
                    events >>

\* chromium.connectOverCDP(url) rejects.
CdpConnectFail ==
    /\ conn.pc = "cdpConnect"
    /\ conn' = AttachThrew(conn, Err("AttachFailed"), options)
    /\ ret' = NoRet
    /\ UNCHANGED << options, auxVars, held, managerVars, driverVars,
                    trackers, pending, now, inflight, closing, assigned,
                    connects, closes, events >>

\* FirstContext taking the newest context.
LastContext(cs) == cs[Len(cs)]

\* this.context = contexts[0]
FirstContext(cs) == cs[1]

\* A context of the driver: how it came to be (origin: "existing" in the
\* browser that was attached to, or "created" by the manager) and whether
\* the manager's context options (user agent, viewport, ...) were applied
\* to it (identity "options") or not (identity "own").
Ctx(kind, engine, b, origin, identity, listeners) ==
    [kind |-> kind, engine |-> engine, open |-> TRUE,
     listeners |-> listeners, browser |-> b, origin |-> origin,
     identity |-> identity]

\* chromium.connectOverCDP(url) resolves with a browser whose contexts()
\* are n contexts, the first holding k pages.  With a context, connectCDP
\* takes contexts[0], registers its pages and subscribes to its
\* page-created events; with none it goes on to await newContext().
CdpConnectOk(n, k) ==
    /\ conn.pc = "cdpConnect"
    /\ n > 0 \/ k = 0
    /\ Cardinality(DOMAIN pageCtx) + k <= MaxHandles
    /\ LET b  == NewHandle(browserInfo)
           cs == [i \in 1 .. n |-> Cardinality(DOMAIN ctxInfo) + i]
           hs == {NewHandle(pageCtx) + i : i \in 0 .. (k - 1)}
       IN  /\ browserInfo' = Put(browserInfo, b,
                  [kind |-> "cdp", engine |-> "chromium", open |-> TRUE,
                   found |-> cs])
           /\ browser' = b
           /\ IF n > 0
              THEN LET c   == FirstContext(cs)
                       pc2 == [h \in (DOMAIN pageCtx) \cup hs |->
                                  IF h \in hs THEN cs[1] ELSE pageCtx[h]]
                   IN  /\ ctxInfo' =
                              [x \in (DOMAIN ctxInfo) \cup {cs[i] : i \in 1 .. n}
                                 |-> IF x \in DOMAIN ctxInfo THEN ctxInfo[x]
                                     ELSE Ctx("cdp", "chromium", b, "existing",
                                              "own", IF x = c THEN 1 ELSE 0)]
                       /\ pageCtx' = pc2
                       /\ openPages' = openPages \cup hs
                       /\ context' = c
                       /\ SetRegistry(RegisterAll(Registry,
                             ContextPages(c, pc2, openPages' \ pageEvQ)))
                       /\ conn' = AttachReturned(conn, options)
              ELSE /\ conn' = [conn EXCEPT !.pc = "cdpNewContext"]
                   /\ UNCHANGED << ctxInfo, pageCtx, openPages, context,
                                   registryVars >>
    /\ ret' = NoRet
    /\ UNCHANGED << options, auxVars, held, chromeProcess, pageEvQ,
                    processes, now, inflight, closing, connects, closes,
                    events >>

\* this.browser.newContext() resolves (connectCDP, no existing context).
CdpNewContextOk ==
    /\ conn.pc = "cdpNewContext"
    /\ LET c == NewHandle(ctxInfo)
       IN  /\ ctxInfo' = Put(ctxInfo, c,
                  Ctx("cdp", "chromium", browser, "created", "own", 1))
           /\ context' = c
           /\ SetRegistry(RegisterAll(Registry,
                             ContextPages(c, pageCtx, openPages \ pageEvQ)))
    /\ conn' = AttachReturned(conn, options)
    /\ ret' = NoRet
    /\ UNCHANGED << options, auxVars, held, browser, chromeProcess,
                    browserInfo, pageCtx, openPages, pageEvQ, processes,
                    now, inflight, closing, connects, closes, events >>

\* this.browser.newContext() rejects (connectCDP).
CdpNewContextFail ==
    /\ conn.pc = "cdpNewContext"
    /\ conn' = AttachThrew(conn, Err("AttachContextFailed"), options)
    /\ ret' = NoRet
    /\ UNCHANGED << options, auxVars, held, managerVars, driverVars,
                    trackers, pending, now, inflight, closing, assigned,
                    connects, closes, events >>

\* launchPersistentContext(dir, ...) resolves with a context holding k
\* pages; launchPersistent goes on to await addInitScript.
PersistLaunchOk(k) ==
    /\ conn.pc = "persistLaunch"
    /\ Cardinality(DOMAIN pageCtx) + k <= MaxHandles
    /\ LET c  == NewHandle(ctxInfo)
           hs == {NewHandle(pageCtx) + i : i \in 0 .. (k - 1)}
       IN  /\ ctxInfo' = Put(ctxInfo, c,
                  Ctx("persistent", conn.engine, NULL, "created",
                      "options", 0))
           /\ pageCtx' = [h \in (DOMAIN pageCtx) \cup hs |->
                             IF h \in hs THEN c ELSE pageCtx[h]]
           /\ openPages' = openPages \cup hs
           /\ context' = c
    /\ conn' = [conn EXCEPT !.pc = "persistInit"]
    /\ ret' = NoRet
    /\ UNCHANGED << options, auxVars, held, browser, chromeProcess,
                    registryVars, browserInfo, pageEvQ, processes, now,
                    inflight, closing, connects, closes, events >>

\* addInitScript resolved: launchPersistent registers the context's pages,
\* subscribes to page-created events and returns to connect().
PersistInitDone ==
    /\ conn.pc = "persistInit"
    /\ IF context = NULL
       THEN /\ conn' = Throw(conn, Err("TypeError"))
            /\ UNCHANGED << registryVars, ctxInfo >>
       ELSE /\ SetRegistry(RegisterAll(Registry,
                   ContextPages(context, pageCtx, openPages \ pageEvQ)))
            /\ ctxInfo' = [ctxInfo EXCEPT ![context].listeners = @ + 1]
            /\ conn' = Return(conn, Msg("persistent", options.browser))
    /\ ret' = NoRet
    /\ UNCHANGED << options, auxVars, held, browser, context, chromeProcess,
                    browserInfo, pageCtx, openPages, pageEvQ, processes,
                    now, inflight, closing, connects, closes, events >>

\* launchPersistentContext rejects with a message holding the substrings m.
\* launchPersistent rethrows; connect() starts spawnChromeAndConnect when
\* the error carries needsCdpFallback and rethrows any other error.
PersistLaunchFail(m) ==
    /\ conn.pc = "persistLaunch"
    /\ LET e == LaunchPersistentError(m)
           c == [conn EXCEPT !.launchErr = e]
       IN  IF needsCdpFallback(e)
           THEN LET p == NewHandle(processes)
                IN  /\ processes' = Put(processes, p, "running")
                    /\ chromeProcess' = p
                    /\ conn' = [c EXCEPT
                          !.pc = "poll", !.branch = "recovery",
                          !.url = DerivedCdpUrl(DefaultPort),
                          !.waited = 0, !.polls = 1,
                          !.attempts = Append(@,
                              Attempt("spawn", "recovery", None))]
           ELSE /\ conn' = Throw(c, e)
                /\ UNCHANGED << processes, chromeProcess >>
    /\ ret' = NoRet
    /\ UNCHANGED << options, auxVars, held, browser, context, registryVars,
                    browserInfo, ctxInfo, pageCtx, openPages, pageEvQ, now,
                    inflight, closing, connects, closes, events >>

\* fetch(`${cdpUrl}/json/version`) answered ok: break, then the check
\* after the loop, then connectCDP(cdpUrl).
PollOk ==
    /\ conn.pc = "poll"
    /\ conn' = IF conn.waited >= MaxWait
               THEN Throw(conn, TimeoutError)
               ELSE CallConnectCDP([conn EXCEPT !.ready = TRUE], "recovery",
                                   conn.url, options)
    /\ ret' = NoRet
    /\ UNCHANGED << options, auxVars, held, managerVars, driverVars,
                    trackers, pending, now, inflight, closing, assigned,
                    connects, closes, events >>

\* fetch threw or answered not ok: the loop sleeps for the interval.
PollNotReady ==
    /\ conn.pc = "poll"
    /\ conn' = [conn EXCEPT !.pc = "pollSleep"]
    /\ ret' = NoRet
    /\ UNCHANGED << options, auxVars, held, managerVars, driverVars,
                    trackers, pending, now, inflight, closing, assigned,
                    connects, closes, events >>

\* The sleep ended: waited += interval; poll again while waited < maxWait,
\* else leave the loop and throw.
PollSleepDone ==
    /\ conn.pc = "pollSleep"
    /\ LET w == conn.waited + PollInterval
       IN  conn' = IF PollAgain(w)
                   THEN [conn EXCEPT !.pc = "poll", !.waited = w,
                                     !.polls = @ + 1]
                   ELSE Throw([conn EXCEPT !.waited = w], TimeoutError)
    /\ ret' = NoRet
    /\ UNCHANGED << options, auxVars, held, managerVars, driverVars,
                    trackers, pending, now, inflight, closing, assigned,
                    connects, closes, events >>

\* browserType.launch(launchOpts) resolves; launchTemporary goes on to
\* await this.browser.newContext(contextOpts).
TempLaunchOk ==
    /\ conn.pc = "tempLaunch"
    /\ LET b == NewHandle(browserInfo)
       IN  /\ browserInfo' = Put(browserInfo, b,
                  [kind |-> "launched", engine |-> conn.engine,
                   open |-> TRUE, found |-> << >>])
           /\ browser' = b
    /\ conn' = [conn EXCEPT !.pc = "tempNewContext"]
    /\ ret' = NoRet
    /\ UNCHANGED << options, auxVars, held, context, chromeProcess,
                    registryVars, ctxInfo, pageCtx, openPages, pageEvQ,
                    processes, now, inflight, closing, connects, closes,
                    events >>

\* browserType.launch rejects: the error leaves connect().
TempLaunchFail ==
    /\ conn.pc = "tempLaunch"
    /\ conn' = Throw(conn, Err("LaunchFailed"))
    /\ ret' = NoRet
    /\ UNCHANGED << options, auxVars, held, managerVars, driverVars,
                    trackers, pending, now, inflight, closing, assigned,
                    connects, closes, events >>

\* newContext resolves; launchTemporary goes on to await addInitScript.
TempNewContextOk ==
    /\ conn.pc = "tempNewContext"
    /\ LET c == NewHandle(ctxInfo)
           b == Max(DOMAIN browserInfo)
       IN  /\ ctxInfo' = Put(ctxInfo, c,
                  Ctx("ephemeral", browserInfo[b].engine, b, "created",
                      "options", 0))
           /\ context' = c
    /\ conn' = [conn EXCEPT !.pc = "tempInit"]
    /\ ret' = NoRet
    /\ UNCHANGED << options, auxVars, held, browser, chromeProcess,
                    registryVars, browserInfo, pageCtx, openPages, pageEvQ,
                    processes, now, inflight, closing, connects, closes,
                    events >>

\* newContext rejects: the error leaves connect().
TempNewContextFail ==
    /\ conn.pc = "tempNewContext"
    /\ conn' = Throw(conn, Err("NewContextFailed"))
    /\ ret' = NoRet
    /\ UNCHANGED << options, auxVars, held, managerVars, driverVars,
                    trackers, pending, now, inflight, closing, assigned,
                    connects, closes, events >>

\* The abort rules of context c, in the order they were installed.
RoutesOf(c) == IF c \in DOMAIN routes THEN routes[c] ELSE << >>

\* for (const pattern of this.blockedPatterns) await ctx.route(pattern, abort)
\* on context c: one more rule for every entry of the list.
Routed(c) == Put(routes, c, RoutesOf(c) \o blockedPatterns)

\* addInitScript resolved: with a non-empty blocked-pattern list
\* launchTemporary applies the route blocking (the driver rejects route()
\* on a closed context); then it subscribes to page-created events and
\* connect() returns its message.
TempInitDone ==
    /\ conn.pc = "tempInit"
    /\ IF context = NULL
       THEN /\ conn' = Throw(conn, Err(IF blockedPatterns = << >>
                                       THEN "TypeError"
                                       ELSE "NotConnected"))
            /\ UNCHANGED << ctxInfo, routes >>
       ELSE IF blockedPatterns # << >> /\ ~ctxInfo[context].open
       THEN /\ conn' = Throw(conn, Err("TargetClosed"))
            /\ UNCHANGED << ctxInfo, routes >>
       ELSE /\ routes' = IF blockedPatterns = << >> THEN routes
                         ELSE Routed(context)
            /\ ctxInfo' = [ctxInfo EXCEPT ![context].listeners = @ + 1]
            /\ conn' = Return(conn, Msg("launched", options.browser))
    /\ ret' = NoRet
    /\ UNCHANGED << options, inputVars, blockedPatterns, storageVars, held,
                    managerVars, browserInfo, pageCtx, openPages, pageEvQ,
                    processes, trackers, pending, now, inflight, closing,
                    assigned, connects, closes, events >>

\* ------------------------------------------------------ page management
\* The same page n times: one registration per subscribed listener.
Repeat(h, n) == [i \in 1 .. n |-> h]

\* newPage up to its await (via = "newPage"), or getOrCreatePage() with no
\* id on an empty registry, which returns this.newPage() (via =
\* "getOrCreatePage").  getContext() throws without a context; the driver
\* rejects ctx.newPage() on a closed context; else it creates the page,
\* whose page-created event is delivered before newPage resumes.
NewPageCall(via) ==
    /\ Busy < MaxConcurrent
    /\ via = "getOrCreatePage" => DOMAIN pages = {}
    /\ IF context = NULL \/ ~ctxInfo[context].open
       THEN /\ ret' = Ret(via, IF context = NULL THEN "NotConnected"
                                                 ELSE "TargetClosed",
                          0, 0)
            /\ UNCHANGED << pageCtx, openPages, pageEvQ, inflight >>
       ELSE /\ Cardinality(DOMAIN pageCtx) < MaxHandles
            /\ LET h == NewHandle(pageCtx)
               IN  /\ pageCtx' = Put(pageCtx, h, context)
                   /\ openPages' = openPages \cup {h}
                   /\ pageEvQ' = pageEvQ \cup {h}
                   /\ inflight' = inflight \cup
                          {[op |-> "newPage", via |-> via, h |-> h,
                            id |-> 0]}
            /\ ret' = NoRet
    /\ UNCHANGED << options, auxVars, held, managerVars, browserInfo,
                    ctxInfo, processes, trackers, pending, now, conn,
                    closing, assigned, connects, closes, events >>

\* The browser opens a page by itself: a popup of an open page, or a tab
\* the user opens in a window of the context.  A context the manager
\* created has no window before its first page.
TabOpened(c) ==
    /\ ctxInfo[c].open
    /\ \/ ctxInfo[c].origin = "existing"
       \/ \E h \in openPages \ pageEvQ : pageCtx[h] = c
    /\ Cardinality(DOMAIN pageCtx) < MaxHandles
    /\ LET h == NewHandle(pageCtx)
       IN  /\ pageCtx' = Put(pageCtx, h, c)
           /\ openPages' = openPages \cup {h}
           /\ pageEvQ' = pageEvQ \cup {h}
    /\ ret' = NoRet
    /\ UNCHANGED << options, auxVars, held, managerVars, browserInfo,
                    ctxInfo, processes, trackers, pending, now, conn,
                    inflight, closing, assigned, connects, closes, events >>

\* The context's page-created event for h (the events arrive in the order
\* the pages were created): every listener the manager subscribed on that
\* context registers the page.
PageCreatedEvent(h) ==
    /\ h \in pageEvQ
    /\ \A g \in pageEvQ : h <= g
    /\ pageEvQ' = pageEvQ \ {h}
    /\ SetRegistry(RegisterAll(Registry,
                      Repeat(h, ctxInfo[pageCtx[h]].listeners)))
    /\ ret' = NoRet
    /\ UNCHANGED << options, auxVars, held, browser, context, chromeProcess,
                    browserInfo, ctxInfo, pageCtx, openPages, processes,
                    now, conn, inflight, closing, connects, closes,
                    events >>

\* newPage after ctx.newPage() resolved: register the page and return it.
NewPageResume(c) ==
    /\ c \in inflight
    /\ c.op = "newPage"
    /\ c.h \notin pageEvQ
    /\ inflight' = inflight \ {c}
    /\ SetRegistry(RegisterPage(Registry, c.h))
    /\ ret' = Ret(c.via, "ok", nextPageId, c.h)
    /\ UNCHANGED << options, auxVars, held, browser, context, chromeProcess,
                    driverVars, now, conn, closing, connects, closes,
                    events >>

\* getOrCreatePage(pageId) with an id: the page must be registered.
GetOrCreatePageById(id) ==
    /\ ret' = IF id \in DOMAIN pages
              THEN Ret("getOrCreatePage(id)", "ok", id, pages[id])
              ELSE Ret("getOrCreatePage(id)", "PageNotFound", id, 0)
    /\ UNCHANGED << options, auxVars, held, managerVars, driverVars,
                    trackers, pending, now, conn, inflight, closing,
                    assigned, connects, closes, events >>

\* LastId taking the smallest id.
FirstId(p) == CHOOSE m \in DOMAIN p : \A x \in DOMAIN p : m <= x

\* const lastId = Math.max(...this.pages.keys())
LastId(p) == Max(DOMAIN p)

\* getOrCreatePage() with no id on a non-empty registry: the greatest id.
GetOrCreatePageLast ==
    /\ DOMAIN pages # {}
    /\ LET lastId == LastId(pages)
       IN  ret' = Ret("getOrCreatePage", "ok", lastId, pages[lastId])
    /\ UNCHANGED << options, auxVars, held, managerVars, driverVars,
                    trackers, pending, now, conn, inflight, closing,
                    assigned, connects, closes, events >>

\* closePage(pageId) up to its await: nothing to do for an unknown id,
\* else page.close() is called.
ClosePageCall(id) ==
    /\ Busy < MaxConcurrent
    /\ IF id \in DOMAIN pages
       THEN /\ inflight' = inflight \cup
                   {[op |-> "closePage", via |-> "closePage",
                     h |-> pages[id], id |-> id]}
            /\ ret' = NoRet
       ELSE /\ ret' = Ret("closePage", "ok", id, 0)
            /\ UNCHANGED inflight
    /\ UNCHANGED << options, auxVars, held, managerVars, driverVars,
                    trackers, pending, now, conn, closing, assigned,
                    connects, closes, events >>

\* The effect of the close handlers of setupPageTracking for the handles hs:
\* each tracked id loses its two buffers.
DropLogs(logs, hs) ==
    [id \in (DOMAIN logs) \ {t[2] : t \in {u \in trackers : u[1] \in hs}}
        |-> logs[id]]

\* The ids under which the pages hs are tracked.
IdsOf(hs) == {t[2] : t \in {u \in trackers : u[1] \in hs}}

\* A page closes (page.close() by closePage, or the user closes the tab):
\* its close event runs the close handlers.
PageCloseEvent(h) ==
    /\ h \in openPages
    /\ openPages' = openPages \ {h}
    /\ consoleLogs' = DropLogs(consoleLogs, {h})
    /\ networkLogs' = DropLogs(networkLogs, {h})
    /\ held' = Detached(IdsOf({h}), IdsOf({h}))
    /\ ret' = Ret("close", "delivered", 0, h)
    /\ UNCHANGED << options, auxVars, browser, context, pages, nextPageId,
                    chromeProcess, browserInfo, ctxInfo, pageCtx, pageEvQ,
                    trackers, pending, processes, now, conn, inflight,
                    closing, assigned, connects, closes, events >>

\* closePage after page.close() resolved: forget the id and its buffers.
ClosePageResume(c) ==
    /\ c \in inflight
    /\ c.op = "closePage"
    /\ c.h \notin openPages
    /\ inflight' = inflight \ {c}
    /\ pages' = Remove(pages, c.id)
    /\ consoleLogs' = Remove(consoleLogs, c.id)
    /\ networkLogs' = Remove(networkLogs, c.id)
    /\ held' = Detached({c.id}, {c.id})
    /\ ret' = Ret("closePage", "ok", c.id, c.h)
    /\ UNCHANGED << options, auxVars, browser, context, nextPageId,
                    chromeProcess, driverVars, trackers, pending, now, conn,
                    closing, assigned, connects, closes, events >>

\* What a listing returned: the ids it lists, in order, and the ids whose
\* page query threw during the listing.
ListRet(op, result, threw) ==
    [op |-> op, status |-> "ok", id |-> 0, h |-> 0, result |-> result,
     threw |-> threw]

\* The ids whose page is closed: the driver may reject a query of such a
\* page.
ClosedIds == {id \in DOMAIN pages : pages[id] \notin openPages}

\* listPages(): one pass over the registry; an id whose page.url() throws
\* (the ids T) is deleted from the registry, every other id is listed.
ListPages(T) ==
    /\ T \subseteq ClosedIds
    /\ pages' = [id \in (DOMAIN pages) \ T |-> pages[id]]
    /\ ret' = ListRet("listPages", Ascending((DOMAIN pages) \ T), T)
    /\ UNCHANGED << options, auxVars, held, browser, context, nextPageId,
                    consoleLogs, networkLogs, chromeProcess, driverVars,
                    trackers, pending, now, conn, inflight, closing,
                    assigned, connects, closes, events >>

\* NextKey skipping to the newest entry.
NextKeyNewest(p, id) ==
    IF \E x \in DOMAIN p : x > id THEN Max(DOMAIN p) ELSE 0

\* The entry the iteration over this.pages visits after the entry id: the
\* next one in insertion order (the ids are inserted in ascending order)
\* that is in the map now, or 0 at the end of the map.
NextKey(p, id) ==
    IF \E x \in DOMAIN p : x > id
    THEN CHOOSE x \in DOMAIN p :
             /\ x > id
             /\ \A y \in DOMAIN p : y > id => x <= y
    ELSE 0

Listing(id, h, result, threw) ==
    [op |-> "listPagesWithTitles", via |-> "listPagesWithTitles",
     h |-> h, id |-> id, result |-> result, threw |-> threw]

\* listPagesWithTitles() up to its first await: page.title() of the first
\* entry, or the empty listing of an empty registry.
ListTitlesCall ==
    /\ Busy < MaxConcurrent
    /\ \A c \in inflight : c.op # "listPagesWithTitles"
    /\ LET first == NextKey(pages, 0)
       IN  IF first = 0
           THEN /\ ret' = ListRet("listPagesWithTitles", << >>, {})
                /\ UNCHANGED inflight
           ELSE /\ inflight' = inflight \cup
                       {Listing(first, pages[first], << >>, {})}
                /\ ret' = NoRet
    /\ UNCHANGED << options, auxVars, held, managerVars, driverVars,
                    trackers, pending, now, conn, closing, assigned,
                    connects, closes, events >>

\* listPagesWithTitles() after page.title() settled: resolved (ok; not for
\* a closed page), the entry is listed; rejected, its id is deleted from
\* the registry.  Then page.title() of the next entry, or the return.
ListTitlesStep(c, ok) ==
    /\ c \in inflight
    /\ c.op = "listPagesWithTitles"
    /\ ok => c.h \in openPages
    /\ LET result == IF ok THEN Append(c.result, c.id) ELSE c.result
           threw  == IF ok THEN c.threw ELSE c.threw \cup {c.id}
           p      == IF ok THEN pages ELSE Remove(pages, c.id)
           next   == NextKey(p, c.id)
       IN  /\ pages' = p
           /\ IF next = 0
              THEN /\ inflight' = inflight \ {c}
                   /\ ret' = ListRet("listPagesWithTitles", result, threw)
              ELSE /\ inflight' = (inflight \ {c}) \cup
                          {Listing(next, p[next], result, threw)}
                   /\ ret' = NoRet
    /\ UNCHANGED << options, auxVars, held, browser, context, nextPageId,
                    consoleLogs, networkLogs, chromeProcess, driverVars,
                    trackers, pending, now, conn, closing, assigned,
                    connects, closes, events >>

\* ------------------------------------------------------------ telemetry
Urls == {"/a"}
Methods == {"POST"}
ResourceTypes == {"xhr"}

\* PushBounded with <= for <.
PushBoundedInclusive(logs, id, entry) ==
    IF id \in DOMAIN logs /\ Len(logs[id]) <= BufferCap
    THEN [logs EXCEPT ![id] = Append(@, entry)]
    ELSE logs

\* if (logs && logs.length < 500) logs.push(entry), for one buffer map and
\* one id.
PushBounded(logs, id, entry) ==
    IF id \in DOMAIN logs /\ Len(logs[id]) < BufferCap
    THEN [logs EXCEPT ![id] = Append(@, entry)]
    ELSE logs

\* The ids under which page h is tracked, in the order the handlers were
\* subscribed.
TrackedIds(h) == Ascending({t[2] : t \in {u \in trackers : u[1] = h}})

RECURSIVE PushAll(_, _, _)
PushAll(logs, ids, entry) ==
    IF ids = << >> THEN logs
    ELSE PushAll(PushBounded(logs, Head(ids), entry), Tail(ids), entry)

ConsoleEntry(t) == [type |-> "log", timestamp |-> t]

\* NetworkEntry ignoring the pending map.
NetworkEntryUnmatched(tr, url, status, t) ==
    [url |-> url, method |-> "GET", status |-> status,
     resourceType |-> "other", timestamp |-> t, hasDuration |-> FALSE,
     duration |-> 0]

\* The entry the response handler of tracker tr builds for a response.
NetworkEntry(tr, url, status, t) ==
    LET known == url \in DOMAIN pending[tr]
    IN  [url          |-> url,
         method       |-> IF known THEN pending[tr][url].method ELSE "GET",
         status       |-> status,
         resourceType |-> IF known THEN pending[tr][url].resourceType
                                   ELSE "other",
         timestamp    |-> t,
         hasDuration  |-> known,
         duration     |-> IF known THEN t - pending[tr][url].timestamp
                                   ELSE 0]

RECURSIVE PushResponses(_, _, _, _, _, _)
PushResponses(logs, h, ids, url, status, t) ==
    IF ids = << >> THEN logs
    ELSE PushResponses(
             PushBounded(logs, Head(ids),
                         NetworkEntry(<< h, Head(ids) >>, url, status, t)),
             h, Tail(ids), url, status, t)

\* A console message of page h: the console handler of every tracker of h.
ConsoleEvent(h) ==
    /\ h \in openPages
    /\ TrackedIds(h) # << >>
    /\ events < MaxEvents
    /\ events' = events + 1
    /\ now' = now + 1
    /\ consoleLogs' = PushAll(consoleLogs, TrackedIds(h), ConsoleEntry(now'))
    /\ ret' = Ret("console", "delivered", 0, h)
    /\ UNCHANGED << options, auxVars, held, browser, context, pages,
                    nextPageId, networkLogs, chromeProcess, driverVars,
                    trackers, pending, conn, inflight, closing, assigned,
                    connects, closes >>

\* A request of page h: the request handler of every tracker of h.
RequestEvent(h, url, method, rtype) ==
    /\ h \in openPages
    /\ TrackedIds(h) # << >>
    /\ events < MaxEvents
    /\ events' = events + 1
    /\ now' = now + 1
    /\ pending' = [tr \in DOMAIN pending |->
                      IF tr[1] = h
                      THEN Put(pending[tr], url,
                               [url |-> url, method |-> method,
                                resourceType |-> rtype, timestamp |-> now'])
                      ELSE pending[tr]]
    /\ ret' = Delivered("request", h, url)
    /\ UNCHANGED << options, auxVars, held, managerVars, driverVars,
                    trackers, conn, inflight, closing, assigned, connects,
                    closes >>

\* A response of page h: the response handler of every tracker of h.
ResponseEvent(h, url, status) ==
    /\ h \in openPages
    /\ TrackedIds(h) # << >>
    /\ events < MaxEvents
    /\ events' = events + 1
    /\ now' = now + 1
    /\ networkLogs' = PushResponses(networkLogs, h, TrackedIds(h), url,
                                    status, now')
    /\ pending' = [tr \in DOMAIN pending |->
                      IF tr[1] = h THEN Remove(pending[tr], url)
                      ELSE pending[tr]]
    /\ ret' = Delivered("response", h, url)
    /\ UNCHANGED << options, auxVars, held, browser, context, pages,
                    nextPageId, consoleLogs, chromeProcess, driverVars,
                    trackers, conn, inflight, closing, assigned, connects,
                    closes >>

\* Cleared deleting the buffer of the id.
ClearedByDelete(logs, id) == Remove(logs, id)

\* logs.set(pageId, []): a new empty array for the id.
Cleared(logs, id) == Put(logs, id, << >>)

\* A console message of page h that is delivered after the page closed.
LateConsoleEvent(h) ==
    /\ h \in (DOMAIN pageCtx) \ openPages
    /\ TrackedIds(h) # << >>
    /\ events < MaxEvents
    /\ events' = events + 1
    /\ now' = now + 1
    /\ consoleLogs' = PushAll(consoleLogs, TrackedIds(h), ConsoleEntry(now'))
    /\ ret' = Ret("console", "delivered", 0, h)
    /\ UNCHANGED << options, auxVars, held, browser, context, pages,
                    nextPageId, networkLogs, chromeProcess, driverVars,
                    trackers, pending, conn, inflight, closing, assigned,
                    connects, closes >>

\* A response of page h that is delivered after the page closed.
LateResponseEvent(h, url, status) ==
    /\ h \in (DOMAIN pageCtx) \ openPages
    /\ TrackedIds(h) # << >>
    /\ events < MaxEvents
    /\ events' = events + 1
    /\ now' = now + 1
    /\ networkLogs' = PushResponses(networkLogs, h, TrackedIds(h), url,
                                    status, now')
    /\ pending' = [tr \in DOMAIN pending |->
                      IF tr[1] = h THEN Remove(pending[tr], url)
                      ELSE pending[tr]]
    /\ ret' = Delivered("response", h, url)
    /\ UNCHANGED << options, auxVars, held, browser, context, pages,
                    nextPageId, consoleLogs, chromeProcess, driverVars,
                    trackers, conn, inflight, closing, assigned, connects,
                    closes >>

\* What a reader operation hands to its caller for the id: the array the
\* map holds for it, or a new empty array.
Handed(kind, logs, id) ==
    [kind |-> kind, id |-> id, live |-> id \in DOMAIN logs, own |-> << >>,
     pushed |-> FALSE]

\* getConsoleLogs(pageId): return this.consoleLogs.get(pageId) || []
getConsoleLogs(id) ==
    /\ held' = Handed("console", consoleLogs, id)
    /\ ret' = Ret("getConsoleLogs", "ok", id, 0)
    /\ UNCHANGED << options, auxVars, managerVars, driverVars, trackers,
                    pending, now, conn, inflight, closing, assigned,
                    connects, closes, events >>

\* getNetworkLogs(pageId): return this.networkLogs.get(pageId) || []
getNetworkLogs(id) ==
    /\ held' = Handed("network", networkLogs, id)
    /\ ret' = Ret("getNetworkLogs", "ok", id, 0)
    /\ UNCHANGED << options, auxVars, managerVars, driverVars, trackers,
                    pending, now, conn, inflight, closing, assigned,
                    connects, closes, events >>

\* What the caller pushes onto the array it got.
CallerEntry == [type |-> "caller", timestamp |-> 0]

\* The caller of a reader operation pushes an entry onto the array it got
\* (once): onto the buffer itself while the array is the buffer's.
CallerPush ==
    /\ held.kind # None
    /\ ~held.pushed
    /\ events < MaxEvents
    /\ events' = events + 1
    /\ IF held.live
       THEN /\ held' = [held EXCEPT !.pushed = TRUE]
            /\ IF held.kind = "console"
               THEN /\ consoleLogs' = [consoleLogs EXCEPT
                                          ![held.id] = Append(@, CallerEntry)]
                    /\ UNCHANGED networkLogs
               ELSE /\ networkLogs' = [networkLogs EXCEPT
                                          ![held.id] = Append(@, CallerEntry)]
                    /\ UNCHANGED consoleLogs
       ELSE /\ held' = [held EXCEPT !.pushed = TRUE,
                                    !.own = Append(@, CallerEntry)]
            /\ UNCHANGED << consoleLogs, networkLogs >>
    /\ ret' = Ret("push", "ok", held.id, 0)
    /\ UNCHANGED << options, auxVars, browser, context, pages, nextPageId,
                    chromeProcess, driverVars, trackers, pending, now, conn,
                    inflight, closing, assigned, connects, closes >>

\* clearConsoleLogs(pageId): this.consoleLogs.set(pageId, [])
clearConsoleLogs(id) ==
    /\ consoleLogs' = Cleared(consoleLogs, id)
    /\ held' = Detached({id}, {})
    /\ ret' = Ret("clearConsoleLogs", "ok", id, 0)
    /\ UNCHANGED << options, auxVars, browser, context, pages, nextPageId,
                    networkLogs, chromeProcess, driverVars, trackers,
                    pending, now, conn, inflight, closing, assigned,
                    connects, closes, events >>

\* clearNetworkLogs(pageId): this.networkLogs.set(pageId, [])
clearNetworkLogs(id) ==
    /\ networkLogs' = Cleared(networkLogs, id)
    /\ held' = Detached({}, {id})
    /\ ret' = Ret("clearNetworkLogs", "ok", id, 0)
    /\ UNCHANGED << options, auxVars, browser, context, pages, nextPageId,
                    consoleLogs, chromeProcess, driverVars, trackers,
                    pending, now, conn, inflight, closing, assigned,
                    connects, closes, events >>

\* -------------------------------------------------------- route blocking
Patterns == {"*.png", "*.gif"}

\* addBlockedPattern(pattern): this.blockedPatterns.push(pattern)
addBlockedPattern(p) ==
    /\ Len(blockedPatterns) < MaxPatterns
    /\ blockedPatterns' = Append(blockedPatterns, p)
    /\ ret' = Ret("addBlockedPattern", "ok", 0, 0)
    /\ UNCHANGED << options, inputVars, routes, storageVars, held,
                    managerVars, driverVars, trackers, pending, now, conn,
                    inflight, closing, assigned, connects, closes, events >>

\* clearBlockedPatterns(): this.blockedPatterns = []
clearBlockedPatterns ==
    /\ blockedPatterns' = << >>
    /\ ret' = Ret("clearBlockedPatterns", "ok", 0, 0)
    /\ UNCHANGED << options, inputVars, routes, storageVars, held,
                    managerVars, driverVars, trackers, pending, now, conn,
                    inflight, closing, assigned, connects, closes, events >>

\* applyRouteBlocking(): getContext() throws without a context; else one
\* ctx.route(pattern, abort) for every entry of the list, which the driver
\* rejects on a closed context.  The awaits of the loop are taken in one
\* step.
applyRouteBlocking ==
    /\ Len(RoutesOf(context)) + Len(blockedPatterns) <= MaxRules
    /\ IF context = NULL
       THEN /\ ret' = Ret("applyRouteBlocking", "NotConnected", 0, 0)
            /\ UNCHANGED routes
       ELSE IF blockedPatterns # << >> /\ ~ctxInfo[context].open
       THEN /\ ret' = Ret("applyRouteBlocking", "TargetClosed", 0, 0)
            /\ UNCHANGED routes
       ELSE /\ routes' = Routed(context)
            /\ ret' = Ret("applyRouteBlocking", "ok", 0, 0)
    /\ UNCHANGED << options, inputVars, blockedPatterns, storageVars, held,
                    managerVars, driverVars, trackers, pending, now, conn,
                    inflight, closing, assigned, connects, closes, events >>

\* The block_urls command for one pattern: getContext(), then
\* addBlockedPattern(pattern) and ctx.route(pattern, abort).
BlockUrls(p) ==
    /\ Len(blockedPatterns) < MaxPatterns
    /\ Len(RoutesOf(context)) < MaxRules
    /\ IF context = NULL
       THEN /\ ret' = Ret("block_urls", "NotConnected", 0, 0)
            /\ UNCHANGED << blockedPatterns, routes >>
       ELSE /\ blockedPatterns' = Append(blockedPatterns, p)
            /\ IF ctxInfo[context].open
               THEN /\ routes' = Put(routes, context,
                                     Append(RoutesOf(context), p))
                    /\ ret' = Ret("block_urls", "ok", 0, 0)
               ELSE /\ ret' = Ret("block_urls", "TargetClosed", 0, 0)
                    /\ UNCHANGED routes
    /\ UNCHANGED << options, inputVars, storageVars, held, managerVars,
                    driverVars, trackers, pending, now, conn, inflight,
                    closing, assigned, connects, closes, events >>

\* --------------------------------------------------------- storage state
Origins == {"https://a.test", "https://b.test"}

\* window.location.origin of a page that has not navigated (about:blank).
BlankOrigin == "null"

\* The cookies of the model: two of one name in different domains, and a
\* third that replaces the first (same name and domain, other value).
Cookies ==
    { [name |-> "sid", value |-> "1", domain |-> "a.test"],
      [name |-> "sid", value |-> "2", domain |-> "b.test"],
      [name |-> "sid", value |-> "3", domain |-> "a.test"] }

Entries == { [name |-> "theme", value |-> "dark"] }

StoragePath == "state.json"

JarOf(c) == IF c \in DOMAIN jar THEN jar[c] ELSE {}

StoredAt(c, o) ==
    IF << c, o >> \in DOMAIN localStorage THEN localStorage[<< c, o >>]
    ELSE {}

OriginOf(h) == IF h \in DOMAIN pageOrigin THEN pageOrigin[h] ELSE BlankOrigin

\* The elements of a set in every order.
Orderings(S) ==
    {q \in [1 .. Cardinality(S) -> S] :
        \A i, j \in 1 .. Cardinality(S) : q[i] = q[j] => i = j}

Range(q) == {q[i] : i \in 1 .. Len(q)}

\* Two cookies the driver holds as one: a cookie that is added replaces
\* the cookie of its name and domain.
SameCookie(c, d) == c.name = d.name /\ c.domain = d.domain

\* AddCookies adding the first cookie only.
AddCookiesFirst(j, cs) ==
    IF cs = << >> THEN j
    ELSE {d \in j : ~SameCookie(d, cs[1])} \cup {cs[1]}

\* ctx.addCookies(cookies) on the cookies j of a context.
RECURSIVE AddCookies(_, _)
AddCookies(j, cs) ==
    IF cs = << >> THEN j
    ELSE AddCookies({d \in j : ~SameCookie(d, Head(cs))} \cup {Head(cs)},
                    Tail(cs))

\* localStorage.setItem(name, value) for the entries es on the entries l.
SetItems(l, es) ==
    {e \in l : \A f \in es : f.name # e.name} \cup es

\* The origins for which context c holds local-storage entries.
StoredOrigins(c) == {o \in Origins : StoredAt(c, o) # {}}

\* saveStorageState(filePath): getContext(), ctx.storageState() (the
\* cookies in the order cs, the origins in the order os), and the state is
\* written to the file as JSON.  One step.
saveStorageState(cs, os) ==
    /\ IF context = NULL
       THEN /\ ret' = Ret("saveStorageState", "NotConnected", 0, 0)
            /\ UNCHANGED files
       ELSE IF ~ctxInfo[context].open
       THEN /\ ret' = Ret("saveStorageState", "TargetClosed", 0, 0)
            /\ UNCHANGED files
       ELSE /\ cs \in Orderings(JarOf(context))
            /\ os \in Orderings(StoredOrigins(context))
            /\ files' = Put(files, StoragePath,
                   [cookies |-> cs,
                    origins |-> [i \in 1 .. Len(os) |->
                                    [origin |-> os[i],
                                     localStorage |->
                                         StoredAt(context, os[i])]]])
            /\ ret' = Ret("saveStorageState", "ok", 0, 0)
    /\ UNCHANGED << options, inputVars, blockVars, jar, localStorage,
                    pageOrigin, held, managerVars, driverVars, trackers,
                    pending, now, conn, inflight, closing, assigned,
                    connects, closes, events >>

\* The loop of loadStorageState over the origins os of the file: each
\* origin's entries are set by a script evaluated in ctx.pages()[0], which
\* does so when that page's origin is the origin.
RECURSIVE LoadOrigins(_, _, _)
LoadOrigins(ls, c, os) ==
    IF os = << >> THEN ls
    ELSE LET ps   == ContextPages(c, pageCtx, openPages \ pageEvQ)
             o    == Head(os).origin
             here == IF << c, o >> \in DOMAIN ls THEN ls[<< c, o >>] ELSE {}
         IN  LoadOrigins(
                 IF ps # << >> /\ OriginOf(ps[1]) = o
                 THEN Put(ls, << c, o >>,
                          SetItems(here, Head(os).localStorage))
                 ELSE ls,
                 c, Tail(os))

\* loadStorageState(filePath): the file must exist; getContext();
\* ctx.addCookies(state.cookies); then the loop over state.origins.  One
\* step.
loadStorageState ==
    /\ IF StoragePath \notin DOMAIN files
       THEN /\ ret' = Ret("loadStorageState", "FileNotFound", 0, 0)
            /\ UNCHANGED << jar, localStorage >>
       ELSE IF context = NULL
       THEN /\ ret' = Ret("loadStorageState", "NotConnected", 0, 0)
            /\ UNCHANGED << jar, localStorage >>
       ELSE IF ~ctxInfo[context].open
       THEN /\ ret' = Ret("loadStorageState", "TargetClosed", 0, 0)
            /\ UNCHANGED << jar, localStorage >>
       ELSE /\ jar' = Put(jar, context,
                          AddCookies(JarOf(context),
                                     files[StoragePath].cookies))
            /\ localStorage' = LoadOrigins(localStorage, context,
                                           files[StoragePath].origins)
            /\ ret' = Ret("loadStorageState", "ok", 0, 0)
    /\ UNCHANGED << options, inputVars, blockVars, pageOrigin, files, held,
                    managerVars, driverVars, trackers, pending, now, conn,
                    inflight, closing, assigned, connects, closes, events >>

\* An open page navigates to a document of origin o.
Navigated(h, o) ==
    /\ h \in openPages \ pageEvQ
    /\ OriginOf(h) # o
    /\ pageOrigin' = Put(pageOrigin, h, o)
    /\ ret' = NoRet
    /\ UNCHANGED << options, inputVars, blockVars, jar, localStorage, files,
                    held, managerVars, driverVars, trackers, pending, now,
                    conn, inflight, closing, assigned, connects, closes,
                    events >>

\* A response sets cookie k in the context of open page h.
CookieSet(h, k) ==
    /\ h \in openPages \ pageEvQ
    /\ k \notin JarOf(pageCtx[h])
    /\ jar' = Put(jar, pageCtx[h], AddCookies(JarOf(pageCtx[h]), << k >>))
    /\ ret' = NoRet
    /\ UNCHANGED << options, inputVars, blockVars, localStorage, pageOrigin,
                    files, held, managerVars, driverVars, trackers, pending,
                    now, conn, inflight, closing, assigned, connects,
                    closes, events >>

\* A script of open page h clears the local storage of its origin.
StorageCleared(h) ==
    /\ h \in openPages \ pageEvQ
    /\ StoredAt(pageCtx[h], OriginOf(h)) # {}
    /\ localStorage' = Put(localStorage, << pageCtx[h], OriginOf(h) >>, {})
    /\ ret' = NoRet
    /\ UNCHANGED << options, inputVars, blockVars, jar, pageOrigin, files,
                    held, managerVars, driverVars, trackers, pending, now,
                    conn, inflight, closing, assigned, connects, closes,
                    events >>

\* ------------------------------------------------- human-like interaction
\* The helpers of human.ts on one page, InputPage.  Math.random() is a
\* draw r in thousandths.  A helper call runs from one await to the next
\* in one step.
InputPage == 1

RandomDraws == {0, 999}

\* rand(min, max) = Math.floor(Math.random() * (max - min + 1)) + min.
rand(min, max, r) == ((r * (max - min + 1)) \div 1000) + min

Pos(x, y) == [known |-> TRUE, x |-> x, y |-> y]
NoPos == [known |-> FALSE, x |-> 0, y |-> 0]

\* page.viewportSize() || { width: 1280, height: 720 }.
Viewport == [width |-> 1280, height |-> 720]

\* A command given to the driver, or a timer: kind "move", "click", "key",
\* "wheel" or "wait"; by is the call; i counts the commands of the call's
\* loop; ms is the timer, the wait that follows the command, or the dwell
\* of the click.
Dev(kind, by, i, x, y, ms) ==
    [kind |-> kind, by |-> by, i |-> i, x |-> x, y |-> y, ms |-> ms,
     key |-> "", button |-> "", clickCount |-> 0]
NoDev == Dev("none", 0, 0, 0, 0, 0)

Abs(n) == IF n < 0 THEN 0 - n ELSE n
Min(S) == CHOOSE n \in S : \A m \in S : n <= m

Clamp(n, lo, hi) == Max({lo, Min({hi, n})})

\* Math.floor(distance / 30) up to 26, for the distance between two points.
StepsOfDistance(a, b) ==
    LET q == (b.x - a.x) * (b.x - a.x) + (b.y - a.y) * (b.y - a.y)
    IN  Max({n \in 0 .. 26 : 900 * n * n <= q})

\* steps = Math.max(5, Math.min(25, Math.floor(distance / 30))).
Steps(a, b) == Clamp(StepsOfDistance(a, b), 5, 25)

\* A control-point coordinate s + d * randf(lo, hi) + randf(-w, w), with lo
\* and hi in tenths: the least, the middle or the greatest whole number of
\* its range.
ControlDraws == {"low", "high"}

Control(s, d, lo, hi, w, r) ==
    LET m == Min({lo * d, hi * d})
        M == Max({lo * d, hi * d})
    IN  IF r = "low" THEN s + (m \div 10) + 1 - w
        ELSE IF r = "high" THEN s + (M \div 10) + w - 1
        ELSE s + ((m + M) \div 20)

\* cp1 and cp2 of generateMousePath for the draws r (four of them).
ControlPoints(a, b, r) ==
    [cp1 |-> [x |-> Control(a.x, b.x - a.x, 2, 4, 30, r[1]),
              y |-> Control(a.y, b.y - a.y, 1, 3, 30, r[2])],
     cp2 |-> [x |-> Control(a.x, b.x - a.x, 6, 8, 20, r[3]),
              y |-> Control(a.y, b.y - a.y, 7, 9, 20, r[4])]]

\* The eased parameter of sample i of n steps, as Eased/(n*n): 2t^2 for
\* t = i/n < 1/2 and 1 - (2 - 2t)^2 / 2 otherwise.
Eased(i, n) ==
    IF 2 * i < n THEN 2 * i * i ELSE n * n - 2 * (n - i) * (n - i)

\* bezierPoint for one coordinate at t = e/d, exactly: the value is
\* int + rem/den with 0 <= rem < 2 * den.  The cubic is evaluated by
\* repeated interpolation, the last level in two parts to stay within
\* 32 bits.
Bezier(p0, p1, p2, p3, e, d) ==
    LET u  == d - e
        q0 == p0 * u + p1 * e
        q1 == p1 * u + p2 * e
        q2 == p2 * u + p3 * e
        r0 == q0 * u + q1 * e
        r1 == q1 * u + q2 * e
        dd == d * d
        hi == (r0 \div dd) * u + (r1 \div dd) * e
        lo == (r0 % dd) * u + (r1 % dd) * e
    IN  [int |-> hi \div d, rem |-> (hi % d) * dd + lo, den |-> dd * d]

\* Math.round(p + randf(-1, 1)) for p = b.int + b.rem/b.den: the whole
\* numbers strictly between p - 1.5 and p + 1.5.
Rounded(b) ==
    {n \in b.int - 2 .. b.int + 3 :
        /\ 2 * (n - b.int) * b.den > 2 * b.rem - 3 * b.den
        /\ 2 * (n - b.int) * b.den < 2 * b.rem + 3 * b.den}

\* The values sample i of the path m (from, to, steps, cp1, cp2) can take.
SamplesAt(m, i) ==
    LET e == Eased(i, m.steps)
        d == m.steps * m.steps
    IN  [x : Rounded(Bezier(m.from.x, m.cp1.x, m.cp2.x, m.to.x, e, d)),
         y : Rounded(Bezier(m.from.y, m.cp1.y, m.cp2.y, m.to.y, e, d))]

\* The loop of generateMousePath without its last round.
LastSampleShort(m) == m.steps - 1

\* The last index of the loop of generateMousePath: i <= steps.
LastSample(m) == m.steps

\* The state no helper of human.ts changes.
outsideInput == << options, blockVars, storageVars, held, managerVars,
                   driverVars, trackers, pending, now, conn, inflight,
                   closing, assigned, connects, closes, events >>

\* The calls that have not returned.
Running == DOMAIN calls

InFlight(c) == c \in Running

\* CurrentPos reading where the driver last put the pointer.
CurrentPosOfPointer(rv) ==
    IF pointer.known THEN pointer
    ELSE Pos(rand(0, Viewport.width, rv[1]), rand(0, Viewport.height, rv[2]))

\* currentPos = page.__lastMousePos || { x: rand(0, viewport.width),
\* y: rand(0, viewport.height) }.
CurrentPos(rv) ==
    IF lastMousePos.known THEN lastMousePos
    ELSE Pos(rand(0, Viewport.width, rv[1]), rand(0, Viewport.height, rv[2]))

\* Two positions more than 2 px apart in a coordinate.
Apart(a, b) == Abs(a.x - b.x) > 2 \/ Abs(a.y - b.y) > 2

\* The start of humanMouseMove(page, to.x, to.y) up to its first await:
\* the stored position or a random point of the viewport, the step count,
\* the control points.  The samples are drawn as they are sent, each
\* independently of the state.  jump records that the pointer was put
\* elsewhere than at the start of the path.
MouseMove(to, rv, rc) ==
    LET from == CurrentPos(rv)
        cps  == ControlPoints(from, to, rc)
    IN  [from |-> from, to |-> to, steps |-> Steps(from, to),
         cp1 |-> cps.cp1, cp2 |-> cps.cp2, i |-> 0,
         jump |-> pointer.known /\ Apart(pointer, from)]

\* page.mouse.move(point) for sample m.i of the path of call c, followed
\* by the wait of rand(2, 12) ms; on a closed page the command rejects.
SendSample(c, op, args, m, r) ==
    IF InputPage \notin openPages
    THEN /\ calls' = Remove(calls, c)
         /\ ret' = Ret(op, "TargetClosed", c, InputPage)
         /\ UNCHANGED << pointer, dev >>
    ELSE \E pt \in SamplesAt(m, m.i) :
            /\ pointer' = Pos(pt.x, pt.y)
            /\ dev' = Dev("move", c, m.i, pt.x, pt.y, rand(2, 12, r))
            /\ calls' = Put(calls, c,
                   [op |-> op, pc |-> "path", args |-> args,
                    move |-> [m EXCEPT !.i = m.i + 1], clicks |-> 0])
            /\ ret' = NoRet

\* humanMouseMove(page, x, y) is called as call c and sends its first
\* sample.
humanMouseMove(c, to, rv, rc, r) ==
    /\ ~InFlight(c)
    /\ Cardinality(Running) < MaxConcurrent
    /\ SendSample(c, "humanMouseMove", [x |-> to.x, y |-> to.y],
                  MouseMove(to, rv, rc), r)
    /\ UNCHANGED << lastMousePos, outsideInput >>

\* The wait after a sample of call c is over: the next sample is sent.
PathStep(c, r) ==
    /\ InFlight(c)
    /\ calls[c].pc = "path"
    /\ calls[c].move.i <= LastSample(calls[c].move)
    /\ SendSample(c, calls[c].op, calls[c].args, calls[c].move, r)
    /\ UNCHANGED << lastMousePos, outsideInput >>

\* Stored leaving the stored position as it is.
StoredBefore(m) == lastMousePos

\* page.__lastMousePos = { x: toX, y: toY } at the end of the path m.
Stored(m) == Pos(m.to.x, m.to.y)

\* The wait after the last sample of call c is over: the target is stored
\* as page.__lastMousePos and humanMouseMove returns.
MoveReturn(c) ==
    /\ InFlight(c)
    /\ calls[c].op = "humanMouseMove"
    /\ calls[c].pc = "path"
    /\ calls[c].move.i > LastSample(calls[c].move)
    /\ lastMousePos' = Stored(calls[c].move)
    /\ calls' = Remove(calls, c)
    /\ ret' = Ret("humanMouseMove", "ok", c, InputPage)
    /\ UNCHANGED << pointer, dev, outsideInput >>

\* A helper call of call id c ends by an error of the driver.
Rejected(c, op) ==
    /\ calls' = Remove(calls, c)
    /\ ret' = Ret(op, "TargetClosed", c, InputPage)
    /\ UNCHANGED << lastMousePos, pointer, dev >>

\* The options of humanClick: a button, a click count, both or neither.
ClickOptions == { EmptyMap, [button |-> "right", clickCount |-> 2] }

\* options.button ?? "left" and options.clickCount ?? 1.
Option(o, name, default) == IF name \in DOMAIN o THEN o[name] ELSE default

\* ClickPoint at the point that was asked for.
ClickPointAsked(call) == [x |-> call.args.x, y |-> call.args.y]

\* The point of the click: jitterX, jitterY, where the path went.
ClickPoint(call) == call.move.to

\* humanClick(page, x, y, options) is called as call c: the target is
\* moved by rand(-3, 3) in each coordinate and humanMouseMove starts.
humanClick(c, x, y, o, rj, rv, rc, r) ==
    /\ ~InFlight(c)
    /\ Cardinality(Running) < MaxConcurrent
    /\ SendSample(c, "humanClick", [x |-> x, y |-> y, options |-> o],
                  MouseMove([x |-> x + rand(-3, 3, rj[1]),
                             y |-> y + rand(-3, 3, rj[2])], rv, rc), r)
    /\ UNCHANGED << lastMousePos, outsideInput >>

\* The wait after the last sample of the click c is over: the target is
\* stored, humanMouseMove returns and microDelay() starts.
ClickPathDone(c, r) ==
    /\ InFlight(c)
    /\ calls[c].op = "humanClick"
    /\ calls[c].pc = "path"
    /\ calls[c].move.i > LastSample(calls[c].move)
    /\ lastMousePos' = Stored(calls[c].move)
    /\ dev' = Dev("wait", c, 0, 0, 0, rand(30, 120, r))
    /\ calls' = Put(calls, c, [calls[c] EXCEPT !.pc = "pause"])
    /\ ret' = NoRet
    /\ UNCHANGED << pointer, outsideInput >>

\* The pause of the click c is over: page.mouse.click at the jittered
\* point, with rand(40, 120) between down and up.
ClickSend(c, r) ==
    /\ InFlight(c)
    /\ calls[c].op = "humanClick"
    /\ calls[c].pc = "pause"
    /\ calls[c].clicks = 0
    /\ IF InputPage \notin openPages THEN Rejected(c, "humanClick")
       ELSE LET at == ClickPoint(calls[c])
                o  == calls[c].args.options
            IN  /\ dev' = [Dev("click", c, 0, at.x, at.y, rand(40, 120, r))
                              EXCEPT !.button = Option(o, "button", "left"),
                                     !.clickCount =
                                         Option(o, "clickCount", 1)]
                /\ pointer' = Pos(at.x, at.y)
                /\ calls' = Put(calls, c, [calls[c] EXCEPT !.pc = "click",
                                                           !.clicks = 1])
                /\ ret' = NoRet
                /\ UNCHANGED lastMousePos
    /\ UNCHANGED outsideInput

\* The click of call c is done: microDelay() starts.
ClickDone(c, r) ==
    /\ InFlight(c)
    /\ calls[c].op = "humanClick"
    /\ calls[c].pc = "click"
    /\ dev' = Dev("wait", c, 0, 0, 0, rand(30, 120, r))
    /\ calls' = Put(calls, c, [calls[c] EXCEPT !.pc = "pause"])
    /\ ret' = NoRet
    /\ UNCHANGED << lastMousePos, pointer, outsideInput >>

\* The pause after the click of call c is over: humanClick returns.
ClickReturn(c) ==
    /\ InFlight(c)
    /\ calls[c].op = "humanClick"
    /\ calls[c].pc = "pause"
    /\ calls[c].clicks = 1
    /\ calls' = Remove(calls, c)
    /\ ret' = Ret("humanClick", "ok", c, InputPage)
    /\ UNCHANGED << lastMousePos, pointer, dev, outsideInput >>

\* The text of humanType: text[i] is a UTF-16 code unit of the string.
TypeChars == {" ", ".", "\n", "A", "7", "!", "a"}

Uppercase == {"A", "B", "C", "D", "E", "F", "G", "H", "I", "J", "K", "L",
              "M", "N", "O", "P", "Q", "R", "S", "T", "U", "V", "W", "X",
              "Y", "Z"}
Digits == {"0", "1", "2", "3", "4", "5", "6", "7", "8", "9"}
Specials == {"!", "@", "#", "$", "%", "^", "&", "*", "(", ")"}

\* TypeRange with the range of normal characters for every character.
TypeRangeNormal(char) == [lo |-> 30, hi |-> 100]

\* The range of the delay after a character, by the tests of humanType in
\* their order.
TypeRange(char) ==
    IF char = " " THEN [lo |-> 30, hi |-> 80]
    ELSE IF char = "\n" \/ char = "." THEN [lo |-> 100, hi |-> 250]
    ELSE IF char \in Uppercase THEN [lo |-> 60, hi |-> 130]
    ELSE IF char \in Digits THEN [lo |-> 70, hi |-> 140]
    ELSE IF char \in Specials THEN [lo |-> 80, hi |-> 160]
    ELSE [lo |-> 30, hi |-> 100]

\* Math.random() < 0.05.
Thinks(r) == r < 50

\* The delay after char: rand over its range, and rand(200, 500) more
\* when the second draw is under 0.05.
TypeDelay(char, r, rp, rq) ==
    rand(TypeRange(char).lo, TypeRange(char).hi, r)
        + (IF Thinks(rp) THEN rand(200, 500, rq) ELSE 0)

Key(c, i, char) == [Dev("key", c, i, 0, 0, 0) EXCEPT !.key = char]

\* page.keyboard.type(text[i], { delay: 0 }) of call c.
SendKey(c, text, i) ==
    IF InputPage \notin openPages THEN Rejected(c, "humanType")
    ELSE /\ dev' = Key(c, i, text[i])
         /\ calls' = Put(calls, c, [op |-> "humanType", pc |-> "key",
                                    args |-> [text |-> text], i |-> i])
         /\ ret' = NoRet
         /\ UNCHANGED << lastMousePos, pointer >>

\* humanType(page, text) is called as call c: it returns at once for the
\* empty text and types the first character otherwise.
humanType(c, text) ==
    /\ ~InFlight(c)
    /\ Cardinality(Running) < MaxConcurrent
    /\ IF text = << >>
       THEN /\ ret' = Ret("humanType", "ok", c, InputPage)
            /\ UNCHANGED inputVars
       ELSE SendKey(c, text, 1)
    /\ UNCHANGED outsideInput

\* The keystroke of call c is done: the delay is drawn and waited for.
KeyDone(c, r, rp, rq) ==
    /\ InFlight(c)
    /\ calls[c].op = "humanType"
    /\ calls[c].pc = "key"
    /\ dev' = Dev("wait", c, calls[c].i, 0, 0,
                  TypeDelay(calls[c].args.text[calls[c].i], r, rp, rq))
    /\ calls' = Put(calls, c, [calls[c] EXCEPT !.pc = "wait"])
    /\ ret' = NoRet
    /\ UNCHANGED << lastMousePos, pointer, outsideInput >>

\* The delay of call c is over: the next character is typed, or humanType
\* returns after the last.
TypeNext(c) ==
    /\ InFlight(c)
    /\ calls[c].op = "humanType"
    /\ calls[c].pc = "wait"
    /\ IF calls[c].i < Len(calls[c].args.text)
       THEN SendKey(c, calls[c].args.text, calls[c].i + 1)
       ELSE /\ calls' = Remove(calls, c)
            /\ ret' = Ret("humanType", "ok", c, InputPage)
            /\ UNCHANGED << lastMousePos, pointer, dev >>
    /\ UNCHANGED outsideInput

\* totalSteps = Math.max(3, Math.min(12, Math.abs(deltaY) / 80)), in
\* eightieths: the quotient is not rounded.
TotalSteps80(deltaY) == Clamp(Abs(deltaY), 3 * 80, 12 * 80)

\* page.mouse.wheel(scrollX, scrollY) of call c, its i-th: the share
\* delta / totalSteps plus randf(-5, 5) and randf(-10, 10), in whole
\* numbers.
SendWheel(c, args, i, rx, ry) ==
    IF InputPage \notin openPages THEN Rejected(c, "humanScroll")
    ELSE /\ dev' = Dev("wheel", c, i,
                       ((args.deltaX * 80) \div TotalSteps80(args.deltaY))
                           + rand(-5, 4, rx),
                       ((args.deltaY * 80) \div TotalSteps80(args.deltaY))
                           + rand(-10, 9, ry), 0)
         /\ calls' = Put(calls, c, [op |-> "humanScroll", pc |-> "wheel",
                                    args |-> args, i |-> i])
         /\ ret' = NoRet
         /\ UNCHANGED << lastMousePos, pointer >>

\* humanScroll(page, deltaY, deltaX) is called as call c and sends its
\* first wheel step (totalSteps is 3 at least).
humanScroll(c, deltaY, deltaX, rx, ry) ==
    /\ ~InFlight(c)
    /\ Cardinality(Running) < MaxConcurrent
    /\ SendWheel(c, [deltaY |-> deltaY, deltaX |-> deltaX], 1, rx, ry)
    /\ UNCHANGED outsideInput

\* The wheel step of call c is done: the wait of rand(20, 80) starts.
WheelDone(c, r) ==
    /\ InFlight(c)
    /\ calls[c].op = "humanScroll"
    /\ calls[c].pc = "wheel"
    /\ dev' = Dev("wait", c, calls[c].i, 0, 0, rand(20, 80, r))
    /\ calls' = Put(calls, c, [calls[c] EXCEPT !.pc = "wait"])
    /\ ret' = NoRet
    /\ UNCHANGED << lastMousePos, pointer, outsideInput >>

\* The wait of call c is over: the loop goes on while i < totalSteps, and
\* humanDelay(100, 300) starts after it.
ScrollNext(c, rx, ry, r) ==
    /\ InFlight(c)
    /\ calls[c].op = "humanScroll"
    /\ calls[c].pc = "wait"
    /\ IF calls[c].i * 80 < TotalSteps80(calls[c].args.deltaY)
       THEN SendWheel(c, calls[c].args, calls[c].i + 1, rx, ry)
       ELSE /\ dev' = Dev("wait", c, 0, 0, 0, rand(100, 300, r))
            /\ calls' = Put(calls, c, [calls[c] EXCEPT !.pc = "pause"])
            /\ ret' = NoRet
            /\ UNCHANGED << lastMousePos, pointer >>
    /\ UNCHANGED outsideInput

\* The pause of call c is over: humanScroll returns.
ScrollReturn(c) ==
    /\ InFlight(c)
    /\ calls[c].op = "humanScroll"
    /\ calls[c].pc = "pause"
    /\ calls' = Remove(calls, c)
    /\ ret' = Ret("humanScroll", "ok", c, InputPage)
    /\ UNCHANGED << lastMousePos, pointer, dev, outsideInput >>

\* ---------------------------------------------------------------- close
\* The synchronous end of close(): kill the spawned process, clear the
\* registry and the buffers, drop the context and the browser.
CloseFinish ==
    /\ processes' = IF chromeProcess # NULL
                    THEN [processes EXCEPT ![chromeProcess] = "killed"]
                    ELSE processes
    /\ chromeProcess' = NULL
    /\ pages' = EmptyMap
    /\ consoleLogs' = EmptyMap
    /\ networkLogs' = EmptyMap
    /\ held' = Detached(DOMAIN consoleLogs, DOMAIN networkLogs)
    /\ context' = NULL
    /\ browser' = NULL
    /\ closing' = [pc |-> "idle", target |-> NULL]

\* close() up to its first await: context.close() when there is a context,
\* else browser.close() when there is a browser, else the end.
CloseCall ==
    /\ closing.pc = "idle"
    /\ Busy < MaxConcurrent
    /\ closes < MaxCloses
    /\ closes' = closes + 1
    /\ IF context # NULL
       THEN /\ closing' = [pc |-> "context", target |-> context]
            /\ UNCHANGED << managerVars, processes, held >>
       ELSE IF browser # NULL
       THEN /\ closing' = [pc |-> "browser", target |-> browser]
            /\ UNCHANGED << managerVars, processes, held >>
       ELSE /\ CloseFinish
            /\ UNCHANGED nextPageId
    /\ ret' = NoRet
    /\ UNCHANGED << options, auxVars, browserInfo, ctxInfo, pageCtx,
                    openPages, pageEvQ, trackers, pending, now, conn,
                    inflight, assigned, connects, events >>

\* context.close() resolved (ok: the context and its pages are closed) or
\* threw (ignored); then browser.close() when there is a browser, else the
\* end.
CloseContextDone(ok) ==
    /\ closing.pc = "context"
    /\ IF ok /\ ctxInfo[closing.target].open
       THEN /\ ctxInfo' = [ctxInfo EXCEPT ![closing.target].open = FALSE]
            /\ openPages' = openPages \
                    {h \in openPages : pageCtx[h] = closing.target}
       ELSE UNCHANGED << ctxInfo, openPages >>
    /\ IF browser # NULL
       THEN /\ closing' = [pc |-> "browser", target |-> browser]
            /\ consoleLogs' = DropLogs(consoleLogs, openPages \ openPages')
            /\ networkLogs' = DropLogs(networkLogs, openPages \ openPages')
            /\ held' = Detached(IdsOf(openPages \ openPages'),
                                IdsOf(openPages \ openPages'))
            /\ UNCHANGED << browser, context, pages, chromeProcess,
                            processes >>
       ELSE CloseFinish
    /\ ret' = NoRet
    /\ UNCHANGED << options, auxVars, nextPageId, browserInfo, pageCtx,
                    pageEvQ, trackers, pending, now, conn, inflight,
                    assigned, connects, closes, events >>

\* browser.close() resolved (ok: the browser, its contexts and their pages
\* are closed) or threw (ignored); then the end.
CloseBrowserDone(ok) ==
    /\ closing.pc = "browser"
    /\ IF ok /\ browserInfo[closing.target].open
       THEN LET cs == {c \in DOMAIN ctxInfo :
                          ctxInfo[c].browser = closing.target}
            IN  /\ browserInfo' =
                       [browserInfo EXCEPT ![closing.target].open = FALSE]
                /\ ctxInfo' = [c \in DOMAIN ctxInfo |->
                                  IF c \in cs
                                  THEN [ctxInfo[c] EXCEPT !.open = FALSE]
                                  ELSE ctxInfo[c]]
                /\ openPages' = openPages \
                                  {h \in openPages : pageCtx[h] \in cs}
       ELSE UNCHANGED << browserInfo, ctxInfo, openPages >>
    /\ CloseFinish
    /\ ret' = NoRet
    /\ UNCHANGED << options, auxVars, nextPageId, pageCtx, pageEvQ,
                    trackers, pending, now, conn, inflight, assigned,
                    connects, closes, events >>

\* ------------------------------------------------------- specification
\* No helper call was made: no position is stored on the page.
InputInit ==
    /\ lastMousePos = NoPos
    /\ pointer = NoPos
    /\ dev = NoDev
    /\ calls = EmptyMap

AuxInit ==
    /\ InputInit
    /\ blockedPatterns = << >>
    /\ routes = EmptyMap
    /\ jar = EmptyMap
    /\ localStorage = EmptyMap
    /\ pageOrigin = EmptyMap
    /\ files = EmptyMap

Init ==
    /\ options \in StartupOptions
    /\ browser = NULL
    /\ context = NULL
    /\ pages = EmptyMap
    /\ nextPageId = 1
    /\ consoleLogs = EmptyMap
    /\ networkLogs = EmptyMap
    /\ chromeProcess = NULL
    /\ browserInfo = EmptyMap
    /\ ctxInfo = EmptyMap
    /\ pageCtx = EmptyMap
    /\ openPages = {}
    /\ pageEvQ = {}
    /\ trackers = {}
    /\ pending = EmptyMap
    /\ processes = EmptyMap
    /\ now = 0
    /\ conn = IdleConn
    /\ inflight = {}
    /\ ret = NoRet
    /\ closing = [pc |-> "idle", target |-> NULL]
    /\ held = NoHeld
    /\ AuxInit
    /\ assigned = << >>
    /\ connects = 0
    /\ closes = 0
    /\ events = 0

\* The connection strategy chain: browser_connect commands, the driver's
\* answers to each step of connect(), and close().
ConnectStep ==
    \/ CdpConnectFail
    \/ \E n \in 0 .. 1, k \in 0 .. 1 : CdpConnectOk(n, k)
    \/ CdpNewContextOk
    \/ CdpNewContextFail
    \/ TempLaunchOk
    \/ TempLaunchFail
    \/ TempNewContextOk
    \/ TempNewContextFail
    \/ TempInitDone

PersistentStep ==
    \/ \E k \in 0 .. 1 : PersistLaunchOk(k)
    \/ PersistInitDone
    \/ \E m \in LaunchErrorMessages : PersistLaunchFail(m)
    \/ PollOk
    \/ PollNotReady
    \/ PollSleepDone

CloseStep ==
    \/ CloseCall
    \/ \E ok \in BOOLEAN : CloseContextDone(ok)
    \/ \E ok \in BOOLEAN : CloseBrowserDone(ok)

Next ==
    \/ \E a \in ConnectArgs : BrowserConnect(a)
    \/ ConnectStep
    \/ \E k \in 0 .. 1 : CdpConnectOk(2, k)
    \/ PersistentStep

Spec == Init /\ [][Next]_vars

\* Shutdown: the connection strategies with close() calls, which may run
\* while a connect call is in flight.
ShutdownNext ==
    \/ Next
    \/ CloseStep

ShutdownSpec == Init /\ [][ShutdownNext]_vars

\* The page registry: a manager started with no attach URL and no profile
\* directory, browser_connect commands without arguments, page management
\* commands, the page events they cause and close().  The commands are
\* issued one at a time: each waits for the one before it to return.
NoArgs == [cdpUrl |-> None, userDataDir |-> None, browserEngine |-> None]

RegistryInit ==
    /\ Init
    /\ options.cdpUrl = None
    /\ options.userDataDir = None
    /\ options.browser = "chromium"

RegistryNext ==
    \/ (Busy = 0 /\ BrowserConnect(NoArgs))
    \/ ConnectStep
    \/ (Busy = 0 /\ CloseCall)
    \/ \E ok \in BOOLEAN : CloseContextDone(ok)
    \/ \E ok \in BOOLEAN : CloseBrowserDone(ok)
    \/ \E via \in {"newPage", "getOrCreatePage"} :
          Busy = 0 /\ NewPageCall(via)
    \/ \E c \in DOMAIN ctxInfo : TabOpened(c)
    \/ \E h \in pageEvQ : PageCreatedEvent(h)
    \/ \E c \in inflight : NewPageResume(c)
    \/ GetOrCreatePageLast
    \/ \E id \in 1 .. nextPageId : Busy = 0 /\ ClosePageCall(id)
    \/ \E h \in openPages : PageCloseEvent(h)
    \/ \E c \in inflight : ClosePageResume(c)

RegistrySpec == RegistryInit /\ [][RegistryNext]_vars

\* Reconnection: a manager started with no attach URL and no profile
\* directory, so that the options hold only what browser_connect commands
\* supplied, and the connection strategy chain.
ReconnectSpec == RegistryInit /\ [][Next]_vars

\* The pages of a session under every connection strategy: a manager
\* started with any options, browser_connect commands without arguments,
\* the steps of connect(), newPage() and the pages the browser opens by
\* itself.
SessionNext ==
    \/ BrowserConnect(NoArgs)
    \/ ConnectStep
    \/ PersistentStep
    \/ NewPageCall("newPage")
    \/ \E c \in DOMAIN ctxInfo : TabOpened(c)
    \/ \E h \in pageEvQ : PageCreatedEvent(h)
    \/ \E c \in inflight : NewPageResume(c)

SessionSpec == Init /\ [][SessionNext]_vars

\* The telemetry buffers.  The initial states are those of a manager that
\* was started with no attach URL and no profile directory, connected by
\* the temporary launch after the default attach failed, opened one page
\* with newPage() (registered by the page-created listener and by newPage
\* itself) and received n console messages and then n responses on it, for
\* n = 0 and for n one short of the capacity.
\* A buffer after n entries were pushed onto it while empty, the i-th at
\* time t + i - 1 (n is at most the capacity, so none was dropped).
FilledConsole(n, t) == [i \in 1 .. n |-> ConsoleEntry(t + i - 1)]

UnmatchedEntry(t) ==
    [url |-> "/a", method |-> "GET", status |-> 200,
     resourceType |-> "other", timestamp |-> t, hasDuration |-> FALSE,
     duration |-> 0]

FilledNetwork(n, t) == [i \in 1 .. n |-> UnmatchedEntry(t + i - 1)]

EmptyRegistry ==
    [pages |-> EmptyMap, nextPageId |-> 1, consoleLogs |-> EmptyMap,
     networkLogs |-> EmptyMap, assigned |-> << >>, trackers |-> {},
     pending |-> EmptyMap]

DefaultOptions ==
    [cdpUrl |-> None, userDataDir |-> None, browser |-> "chromium"]

TelemetryState(n) ==
        LET r == RegisterPage(RegisterPage(EmptyRegistry, 1), 1)
        IN  /\ options = DefaultOptions
            /\ browser = 1
            /\ context = 1
            /\ pages = r.pages
            /\ nextPageId = r.nextPageId
            /\ consoleLogs = [id \in DOMAIN r.consoleLogs |->
                                 FilledConsole(n, 1)]
            /\ networkLogs = [id \in DOMAIN r.networkLogs |->
                                 FilledNetwork(n, n + 1)]
            /\ chromeProcess = NULL
            /\ browserInfo = << [kind |-> "launched", engine |-> "chromium",
                                 open |-> TRUE, found |-> << >>] >>
            /\ ctxInfo = << Ctx("ephemeral", "chromium", 1, "created",
                                "options", 1) >>
            /\ pageCtx = << 1 >>
            /\ openPages = {1}
            /\ pageEvQ = {}
            /\ trackers = r.trackers
            /\ pending = r.pending
            /\ processes = EmptyMap
            /\ now = 2 * n
            /\ conn = Return(CallLaunchTemporary(
                                 CallConnectCDP(IdleConn, "default",
                                                DefaultCdpUrl, DefaultOptions),
                                 DefaultOptions),
                             Msg("launched", "chromium"))
            /\ inflight = {}
            /\ ret = NoRet
            /\ closing = [pc |-> "idle", target |-> NULL]
            /\ held = NoHeld
            /\ AuxInit
            /\ assigned = r.assigned
            /\ connects = 1
            /\ closes = 0
            /\ events = 0

TelemetryInit == \E n \in {0, BufferCap - 1} : TelemetryState(n)

TelemetryNext ==
    \/ \E h \in openPages : ConsoleEvent(h)
    \/ \E h \in openPages, u \in Urls, m \in Methods, r \in ResourceTypes :
          RequestEvent(h, u, m, r)
    \/ \E h \in openPages, u \in Urls : ResponseEvent(h, u, 200)
    \/ \E id \in DOMAIN pages : clearConsoleLogs(id)
    \/ \E id \in DOMAIN pages : clearNetworkLogs(id)
    \/ \E id \in DOMAIN pages : ClosePageCall(id)
    \/ \E h \in openPages : PageCloseEvent(h)
    \/ \E c \in inflight : ClosePageResume(c)

TelemetrySpec == TelemetryInit /\ [][TelemetryNext]_vars

\* The state of a manager that was started with no attach URL and no
\* profile directory and attached, by the default attach, to a running
\* browser whose first context held k pages.
Attached(k) ==
    LET r == RegisterAll(EmptyRegistry, [i \in 1 .. k |-> i])
    IN  /\ options = DefaultOptions
        /\ browser = 1
        /\ context = 1
        /\ SetInitRegistry(r)
        /\ chromeProcess = NULL
        /\ browserInfo = << [kind |-> "cdp", engine |-> "chromium",
                             open |-> TRUE, found |-> << 1 >>] >>
        /\ ctxInfo = << Ctx("cdp", "chromium", 1, "existing", "own", 1) >>
        /\ pageCtx = [i \in 1 .. k |-> 1]
        /\ openPages = 1 .. k
        /\ pageEvQ = {}
        /\ processes = EmptyMap
        /\ now = 0
        /\ conn = AttachReturned(CallConnectCDP(IdleConn, "default",
                                                DefaultCdpUrl,
                                                DefaultOptions),
                                 DefaultOptions)
        /\ inflight = {}
        /\ ret = NoRet
        /\ closing = [pc |-> "idle", target |-> NULL]
        /\ held = NoHeld
        /\ connects = 1
        /\ closes = 0
        /\ events = 0

\* The registry of a session in use, with one page.
PagesInit == Attached(1) /\ AuxInit

PagesNext ==
    \/ NewPageCall("newPage")
    \/ \E c \in DOMAIN ctxInfo : TabOpened(c)
    \/ \E h \in pageEvQ : PageCreatedEvent(h)
    \/ \E c \in inflight : NewPageResume(c)
    \/ \E id \in DOMAIN pages : ClosePageCall(id)
    \/ \E h \in openPages : PageCloseEvent(h)
    \/ \E c \in inflight : ClosePageResume(c)
    \/ \E id \in 1 .. nextPageId : GetOrCreatePageById(id)
    \/ GetOrCreatePageLast
    \/ \E T \in SUBSET ClosedIds : ListPages(T)
    \/ ListTitlesCall
    \/ \E c \in inflight, ok \in BOOLEAN : ListTitlesStep(c, ok)

PagesSpec == PagesInit /\ [][PagesNext]_vars

\* A session whose context has no page yet: pages are created on demand
\* by getOrCreatePage() calls, up to MaxConcurrent at a time, and closed.
LazyInit == Attached(0) /\ AuxInit

LazyNext ==
    \/ NewPageCall("getOrCreatePage")
    \/ GetOrCreatePageLast
    \/ \E h \in pageEvQ : PageCreatedEvent(h)
    \/ \E c \in inflight : NewPageResume(c)
    \/ \E id \in DOMAIN pages : ClosePageCall(id)
    \/ \E h \in openPages : PageCloseEvent(h)
    \/ \E c \in inflight : ClosePageResume(c)

LazySpec == LazyInit /\ [][LazyNext]_vars

\* Route blocking.  The initial state is that of the registry of a session
\* in use; patterns are blocked with block_urls and addBlockedPattern, the
\* blocking is applied, and the manager reconnects with browser_connect
\* commands without arguments and may be closed.
RoutesNext ==
    \/ \E p \in Patterns : addBlockedPattern(p)
    \/ clearBlockedPatterns
    \/ applyRouteBlocking
    \/ \E p \in Patterns : BlockUrls(p)
    \/ (Busy = 0 /\ BrowserConnect(NoArgs))
    \/ ConnectStep
    \/ (Busy = 0 /\ CloseCall)
    \/ \E ok \in BOOLEAN : CloseContextDone(ok)
    \/ \E ok \in BOOLEAN : CloseBrowserDone(ok)

RoutesSpec == PagesInit /\ [][RoutesNext]_vars

\* Storage state.  The initial states are those of a session with two
\* pages, each showing a document of some origin, with local-storage
\* entries for one origin or none; the pages navigate, cookies are set,
\* local storage is cleared, the state is saved and loaded, and the
\* manager reconnects with browser_connect commands without arguments.
StorageInit ==
    /\ Attached(2)
    /\ InputInit
    /\ blockedPatterns = << >>
    /\ routes = EmptyMap
    /\ jar = EmptyMap
    /\ \E o \in Origins, es \in SUBSET Entries :
          localStorage = IF es = {} THEN EmptyMap
                         ELSE [x \in {<< 1, o >>} |-> es]
    /\ pageOrigin \in [1 .. 2 -> Origins]
    /\ files = EmptyMap

StorageNext ==
    \/ \E h \in openPages, o \in Origins : Navigated(h, o)
    \/ \E h \in openPages, k \in Cookies : CookieSet(h, k)
    \/ \E h \in openPages : StorageCleared(h)
    \/ \E cs \in UNION {Orderings(J) : J \in SUBSET Cookies},
          os \in UNION {Orderings(O) : O \in SUBSET Origins} :
          saveStorageState(cs, os)
    \/ loadStorageState
    \/ (Busy = 0 /\ BrowserConnect(NoArgs))
    \/ ConnectStep

StorageSpec == StorageInit /\ [][StorageNext]_vars

\* Pointer motion: humanMouseMove calls on the page of a session in use,
\* one at a time, to targets at distances that give 5, 6 and 25 steps.
MoveTargets == { [x |-> 20, y |-> 20], [x |-> 200, y |-> 20],
                 [x |-> 1100, y |-> 700] }

Draws(n) == [1 .. n -> RandomDraws]

MotionNext ==
    \/ /\ Running = {}
       /\ \E to \in MoveTargets, rv \in Draws(2),
             rc \in [1 .. 4 -> ControlDraws], r \in RandomDraws :
             humanMouseMove(1, to, rv, rc, r)
    \/ \E r \in RandomDraws : PathStep(1, r)
    \/ MoveReturn(1)

MotionSpec == PagesInit /\ [][MotionNext]_vars

\* Clicks: humanClick calls, one at a time, at (100, 100) and (300, 100),
\* with the control points all at the least or all at the greatest of
\* their ranges, on a page that may close.
ClickTargets == { [x |-> 100, y |-> 100], [x |-> 300, y |-> 100] }

ClickControls == { [i \in 1 .. 4 |-> d] : d \in ControlDraws }

ClickNext ==
    \/ /\ Running = {}
       /\ \E at \in ClickTargets, o \in ClickOptions, rj, rv \in Draws(2),
             rc \in ClickControls, r \in RandomDraws :
             humanClick(1, at.x, at.y, o, rj, rv, rc, r)
    \/ \E r \in RandomDraws : PathStep(1, r)
    \/ \E r \in RandomDraws : ClickPathDone(1, r)
    \/ \E r \in RandomDraws : ClickSend(1, r)
    \/ \E r \in RandomDraws : ClickDone(1, r)
    \/ ClickReturn(1)
    \/ PageCloseEvent(InputPage)

ClickSpec == PagesInit /\ [][ClickNext]_vars

\* Concurrent calls: up to MaxConcurrent humanMouseMove calls at a time on
\* one page, along short paths: the first start is the corner of the
\* viewport, the control points are all at the least of their ranges.
RaceTargets == { [x |-> 20, y |-> 20], [x |-> 60, y |-> 20] }

RaceControls == { [i \in 1 .. 4 |-> "low"] }

RaceNext ==
    \/ \E c \in 1 .. MaxConcurrent, to \in RaceTargets,
          rc \in RaceControls, r \in RandomDraws :
          humanMouseMove(c, to, << 0, 0 >>, rc, r)
    \/ \E c \in Running, r \in RandomDraws : PathStep(c, r)
    \/ \E c \in Running : MoveReturn(c)

RaceSpec == PagesInit /\ [][RaceNext]_vars

\* Typing: humanType calls, one at a time, with every text of up to
\* MaxText characters, on a page that may close.
Texts == UNION {[1 .. n -> TypeChars] : n \in 0 .. MaxText}

TypeSpecNext ==
    \/ (Running = {} /\ \E text \in Texts : humanType(1, text))
    \/ \E r, rp, rq \in RandomDraws : KeyDone(1, r, rp, rq)
    \/ TypeNext(1)
    \/ PageCloseEvent(InputPage)

TypeSpec == PagesInit /\ [][TypeSpecNext]_vars

\* Scrolling: humanScroll calls, one at a time, over distances below,
\* within and above the range of 3 to 12 steps of 80, on a page that may
\* close.
ScrollDeltas == {0, 100, 300, 400, 500, -500, 960, -1000, 3000}

ScrollNextStep ==
    \/ /\ Running = {}
       /\ \E deltaY \in ScrollDeltas, deltaX \in {0, 50},
             rx, ry \in RandomDraws :
             humanScroll(1, deltaY, deltaX, rx, ry)
    \/ \E r \in RandomDraws : WheelDone(1, r)
    \/ \E rx, ry, r \in RandomDraws : ScrollNext(1, rx, ry, r)
    \/ ScrollReturn(1)
    \/ PageCloseEvent(InputPage)

ScrollSpec == PagesInit /\ [][ScrollNextStep]_vars

\* The readers of the telemetry buffers.  The initial state is that of the
\* telemetry buffers with n = 0; a caller of a reader operation may push
\* onto the array it got.
ReaderInit == TelemetryState(0)

ReaderNext ==
    \/ \E h \in openPages : ConsoleEvent(h)
    \/ \E h \in openPages, u \in Urls : ResponseEvent(h, u, 200)
    \/ \E id \in 1 .. nextPageId : getConsoleLogs(id)
    \/ \E id \in 1 .. nextPageId : getNetworkLogs(id)
    \/ CallerPush
    \/ \E id \in DOMAIN pages : clearConsoleLogs(id)
    \/ \E id \in DOMAIN pages : clearNetworkLogs(id)
    \/ \E h \in openPages : PageCloseEvent(h)

ReaderSpec == ReaderInit /\ [][ReaderNext]_vars

\* The event handlers of a page.  The initial states are those of the
\* telemetry buffers, with n = 0, n one short of the capacity and n the
\* capacity; the page emits requests of one URL and responses of two, and
\* events may be delivered after the page closed.
EventUrls == {"/a", "/b"}

EventsInit == \E n \in {0, BufferCap - 1, BufferCap} : TelemetryState(n)

EventsNext ==
    \/ \E h \in openPages : ConsoleEvent(h)
    \/ \E h \in openPages, m \in Methods, r \in ResourceTypes :
          RequestEvent(h, "/a", m, r)
    \/ \E h \in openPages, u \in EventUrls : ResponseEvent(h, u, 200)
    \/ \E h \in DOMAIN pageCtx : LateConsoleEvent(h)
    \/ \E h \in DOMAIN pageCtx, u \in EventUrls :
          LateResponseEvent(h, u, 200)
    \/ \E id \in DOMAIN pages : clearConsoleLogs(id)
    \/ \E id \in DOMAIN pages : clearNetworkLogs(id)
    \/ \E h \in openPages : PageCloseEvent(h)

EventsSpec == EventsInit /\ [][EventsNext]_vars

\* ------------------------------------------------------ command handlers
\* The handlers of tools.ts that act on a page, and the handler of
\* new_page.
PageTools ==
    {"navigate", "go_back", "go_forward", "reload", "wait_for_navigation"}

\* The handlers whose body is a try whose catch returns a failed result
\* ({ content, isError: true }).
CatchingTools == {"navigate", "wait_for_navigation"}

\* What the driver may answer to the page operation of a handler: it
\* resolves (None), or it rejects, on a closed page always.
StepErrors == {None, "Timeout", "TargetClosed"}

\* How a handler ends when its step raised error e (None: no error): with
\* its result, with a failed result made by its catch, or, having no
\* catch, rejected with the error.
HandlerStatus(tool, e) ==
    IF e = None THEN "ok"
    ELSE IF tool \in CatchingTools THEN "failed"
    ELSE "rejected"

\* A page handler called with a page id: getOrCreatePage(pageId) throws
\* for an id that is not registered; else the page operation (goto,
\* goBack, goForward, reload, waitForLoadState), whose answer is e.  The
\* handler changes no state of the manager; its awaits are taken in one
\* step.
PageTool(tool, id, e) ==
    /\ Busy < MaxConcurrent
    /\ (id \in DOMAIN pages /\ pages[id] \notin openPages) => e # None
    /\ ret' = IF id \in DOMAIN pages
              THEN Ret(tool, HandlerStatus(tool, e), id, pages[id])
              ELSE Ret(tool, HandlerStatus(tool, "PageNotFound"), id, 0)
    /\ UNCHANGED << options, auxVars, held, managerVars, driverVars,
                    trackers, pending, now, conn, inflight, closing,
                    assigned, connects, closes, events >>

\* The new_page handler up to its await: browser.newPage(), whose
\* getContext() throws without a context and whose ctx.newPage() the
\* driver rejects on a closed context.
new_page ==
    \/ /\ context # NULL
       /\ ctxInfo[context].open
       /\ NewPageCall("new_page")
    \/ /\ IF context = NULL THEN TRUE ELSE ~ctxInfo[context].open
       /\ Busy < MaxConcurrent
       /\ ret' = Ret("new_page",
                     HandlerStatus("new_page",
                                   IF context = NULL THEN "NotConnected"
                                                     ELSE "TargetClosed"),
                     0, 0)
       /\ UNCHANGED << options, auxVars, held, managerVars, driverVars,
                       trackers, pending, now, conn, inflight, closing,
                       assigned, connects, closes, events >>

\* The handlers on a manager that is not connected or on a session with
\* one page, whose pages may be closed by the user and whose context may
\* be closed by close().
HandlersInit ==
    \/ PagesInit
    \/ (Init /\ options = DefaultOptions)

HandlersNext ==
    \/ \E tool \in PageTools, id \in 1 .. nextPageId, e \in StepErrors :
          PageTool(tool, id, e)
    \/ new_page
    \/ \E h \in pageEvQ : PageCreatedEvent(h)
    \/ \E c \in inflight : NewPageResume(c)
    \/ \E h \in openPages : PageCloseEvent(h)
    \/ CloseStep

HandlersSpec == HandlersInit /\ [][HandlersNext]_vars

\* ------------------------------------------------------------ page ids
\* C1: every id assigned to a page is a positive integer strictly greater
\* than every id assigned before it, so no id is assigned twice, also
\* after the page that held it was closed or the manager was closed.
C1_IdsStrictlyIncreasing ==
    \A i \in 1 .. Len(assigned) :
        /\ assigned[i] >= 1
        /\ \A j \in 1 .. (i - 1) : assigned[j] < assigned[i]

\* A page was registered on a second connection, after close() emptied the
\* registry that held the earlier ids.
C1_AssignedAfterClose ==
    /\ closes >= 1
    /\ connects >= 2
    /\ Len(assigned) >= 2
    /\ assigned[Len(assigned)] \in DOMAIN pages
    /\ assigned[1] \notin DOMAIN pages

\* C2: getOrCreatePage() with no id on a connected manager with an empty
\* registry creates exactly one page under id 1 and the registry then holds
\* exactly one entry; a further call returns that page and id.  Stated for
\* the runs in which the driver has made exactly one page.
C2_FirstPageHasIdOne ==
    (/\ ret.op = "getOrCreatePage"
     /\ ret.status = "ok"
     /\ closes = 0
     /\ DOMAIN pageCtx = {1})
    => (/\ ret.id = 1
        /\ ret.h = 1
        /\ DOMAIN pages = {1})

\* ----------------------------------------------------------- telemetry
\* C3: the console buffer and the network buffer of every page hold at
\* most 500 entries in every reachable state.
C3_BuffersBounded ==
    /\ \A id \in DOMAIN consoleLogs : Len(consoleLogs[id]) <= 500
    /\ \A id \in DOMAIN networkLogs : Len(networkLogs[id]) <= 500

\* A console message was delivered to a page whose buffer was already full.
C3_EventOnFullBuffer ==
    /\ ret.op = "console"
    /\ \E id \in DOMAIN consoleLogs :
          /\ << ret.h, id >> \in trackers
          /\ Len(consoleLogs[id]) = 500
          /\ consoleLogs[id][500].timestamp < now

\* C4: when further events arrive at a buffer that holds 500 entries, the
\* buffer afterwards holds the 500 most recent entries (the oldest are
\* dropped): in particular the event just delivered is its newest entry.
C4_NewestEntryKept ==
    /\ ret.op = "console" =>
          \A id \in DOMAIN consoleLogs :
              << ret.h, id >> \in trackers =>
                  /\ Len(consoleLogs[id]) \in 1 .. 500
                  /\ consoleLogs[id][Len(consoleLogs[id])].timestamp = now
    /\ ret.op = "response" =>
          \A id \in DOMAIN networkLogs :
              << ret.h, id >> \in trackers =>
                  /\ Len(networkLogs[id]) \in 1 .. 500
                  /\ networkLogs[id][Len(networkLogs[id])].timestamp = now

\* ------------------------------------------------- connection strategy
\* C5: connect picks its strategy from the options in a fixed order: with
\* an attach URL only the attach to that URL is attempted (also when a
\* profile directory is set); else with a profile directory only the
\* persistent launch and its recovery; with neither, the default attach
\* and then the ephemeral launch.
C5_StrategyOrder ==
    conn.pc # "idle" =>
        LET att == conn.attempts
        IN  /\ Len(att) >= 1
            /\ options.cdpUrl # None =>
                  att = << Attempt("attach", "configured", options.cdpUrl) >>
            /\ (options.cdpUrl = None /\ options.userDataDir # None) =>
                  /\ att[1] = Attempt("persistent", "persistent", None)
                  /\ \A i \in 2 .. Len(att) : att[i].branch = "recovery"
            /\ (options.cdpUrl = None /\ options.userDataDir = None) =>
                  /\ att[1] = Attempt("attach", "default", DefaultCdpUrl)
                  /\ Len(att) <= 2
                  /\ Len(att) = 2 =>
                        att[2] = Attempt("ephemeral", "ephemeral", None)

\* Both an attach URL and a profile directory are set and the attach has
\* failed: connect has thrown.
C5_AttachUrlWinsOverProfile ==
    /\ options.cdpUrl # None
    /\ options.userDataDir # None
    /\ conn.pc = "thrown"

\* C6: when the persistent launch fails with a profile-locked error (a
\* lock message that is not a needs-debugging message), connect fails with
\* the error that carries the remediation text, and that call has spawned
\* no process and attempted neither an attach nor the ephemeral launch.
C6_ProfileLockedFailsFast ==
    (/\ conn.launchErr.markers \cap LockMarkers # {}
     /\ conn.launchErr.markers \cap FallbackMarkers = {})
    => (/\ conn.pc = "thrown"
        /\ conn.err.kind = "ProfileLocked"
        /\ conn.err.remediation
        /\ conn.attempts = << Attempt("persistent", "persistent", None) >>)

\* connect has thrown the profile-locked error.
C6_ProfileLockedThrown ==
    /\ conn.pc = "thrown"
    /\ conn.err.remediation
    /\ "lock" \in conn.launchErr.markers

\* C7: the recovery is entered only from a persistent launch that failed
\* with a needs-debugging error; it ends connected through the spawned
\* instance or failed, never attempts the default attach or the ephemeral
\* launch, and the marker error is never the error connect throws.
C7_RecoveryOnlyFromNeedsDebugging ==
    /\ (\E i \in 1 .. Len(conn.attempts) :
            conn.attempts[i].branch = "recovery") =>
          /\ conn.attempts[1] = Attempt("persistent", "persistent", None)
          /\ conn.launchErr.markers \cap FallbackMarkers # {}
          /\ \A i \in 1 .. Len(conn.attempts) :
                 conn.attempts[i].branch \notin {"default", "ephemeral"}
          /\ conn.pc = "returned" =>
                 /\ conn.msg.kind = "spawned"
                 /\ chromeProcess # NULL
                 /\ browser # NULL
                 /\ browserInfo[browser].kind = "cdp"
    /\ conn.pc = "thrown" =>
          /\ ~conn.err.needsCdpFallback
          /\ conn.err.kind # "NEEDS_CDP_FALLBACK"

\* connect has returned connected through the instance the recovery
\* spawned.
C7_RecoveredThroughSpawn ==
    /\ conn.branch = "recovery"
    /\ conn.pc = "returned"

\* C8: the recovery polls the debug endpoint every 500 ms at most 30 times
\* (15 s); the attach is attempted only after a poll succeeded; when none
\* succeeds within the wait, connect fails with an error naming 15 s and
\* attempts no attach.
C8_PollingBounded ==
    conn.branch = "recovery" =>
        LET attached == \E i \in 1 .. Len(conn.attempts) :
                            conn.attempts[i].s = "attach"
        IN  /\ conn.polls \in 1 .. 30
            /\ conn.pc \in {"poll", "pollSleep"} =>
                   conn.waited = 500 * (conn.polls - 1)
            /\ conn.waited <= 15000
            /\ attached <=> conn.ready
            /\ conn.ready => conn.waited < 15000
            /\ (conn.pc = "thrown" /\ ~conn.ready) =>
                   /\ conn.err.kind = "ChromeDidNotStart"
                   /\ conn.err.seconds = 15
                   /\ conn.polls = 30
                   /\ conn.waited = 15000

\* Every poll failed: connect has thrown the timeout error.
C8_TimedOut ==
    /\ conn.branch = "recovery"
    /\ conn.pc = "thrown"
    /\ conn.err = TimeoutError

\* C9: with neither an attach URL nor a profile directory, connect first
\* attaches to http://localhost:9222; when that attach fails the ephemeral
\* launch is attempted and its outcome is the outcome of connect: the
\* attach failure is never thrown.
C9_DefaultAttachThenEphemeral ==
    (options.cdpUrl = None /\ options.userDataDir = None
     /\ conn.pc # "idle") =>
        /\ conn.attempts[1] =
               Attempt("attach", "default", "http://localhost:9222")
        /\ conn.pc = "returned" =>
               \/ /\ Len(conn.attempts) = 1
                  /\ conn.msg = Msg("cdp", "http://localhost:9222")
               \/ /\ Len(conn.attempts) = 2
                  /\ conn.msg.kind = "launched"
        /\ conn.pc = "thrown" =>
               /\ Len(conn.attempts) = 2
               /\ conn.attempts[2].s = "ephemeral"
               /\ conn.err.kind \in
                      {"LaunchFailed", "NewContextFailed", "TypeError"}

\* The default attach failed and the ephemeral launch failed as well.
C9_EphemeralOutcome ==
    /\ options.cdpUrl = None
    /\ options.userDataDir = None
    /\ conn.pc = "thrown"
    /\ conn.err.kind = "LaunchFailed"

\* C10 as stated: when an attach URL is configured, no profile directory
\* is set and the attach fails, connect goes on to the ephemeral launch.
C10_ConfiguredAttachFallsThrough ==
    (/\ options.cdpUrl # None
     /\ options.userDataDir = None
     /\ conn.pc \in {"returned", "thrown"}
     /\ conn.msg.kind # "cdp")
    => \E i \in 1 .. Len(conn.attempts) : conn.attempts[i].s = "ephemeral"

\* C10 amended: a failed attach to a configured URL makes connect throw
\* the attach error without any launch; the ephemeral launch is reached
\* only with no attach URL and no profile directory, after the default
\* attach failed, and the session then reports the requested engine, which
\* is the engine that was launched.
C10_EphemeralOnlyByDefault ==
    /\ (options.cdpUrl # None /\ conn.pc = "thrown") =>
          /\ conn.err.kind \in {"AttachFailed", "AttachContextFailed"}
          /\ Len(conn.attempts) = 1
    /\ (conn.pc = "returned" /\ conn.msg.kind = "launched") =>
          /\ options.cdpUrl = None
          /\ options.userDataDir = None
          /\ Len(conn.attempts) = 2
          /\ conn.attempts[1].s = "attach"
          /\ browser # NULL
          /\ browserInfo[browser].kind = "launched"
          /\ browserInfo[browser].engine = getBrowserInfoEngine(options)
          /\ conn.msg.detail = getBrowserInfoEngine(options)

\* An ephemeral firefox session was launched after the default attach
\* failed.
C10_LaunchedRequestedEngine ==
    /\ conn.pc = "returned"
    /\ conn.msg.kind = "launched"
    /\ options.browser = "firefox"

\* ------------------------------------------------------------- sessions
\* C11: at most one session opened by the manager is live: once connect
\* has settled, no browser and no context that an earlier connect opened
\* is still open without being the manager's browser or context.
C11_NoLeakedSession ==
    conn.pc \in Settled =>
        /\ \A b \in DOMAIN browserInfo : browserInfo[b].open => b = browser
        /\ \A c \in DOMAIN ctxInfo :
               (/\ ctxInfo[c].open
                /\ ctxInfo[c].origin = "created" \/ ctxInfo[c].listeners > 0)
               => c = context

\* C13: when the browser attached to has a context, the manager uses the
\* first one and creates none; only when it has none does the manager
\* create a context, and then with no identity overrides.
C13_AttachReusesFirstContext ==
    \A b \in DOMAIN browserInfo :
        browserInfo[b].kind = "cdp" =>
            LET found   == browserInfo[b].found
                used    == {c \in DOMAIN ctxInfo :
                               /\ ctxInfo[c].browser = b
                               /\ ctxInfo[c].listeners > 0}
                created == {c \in DOMAIN ctxInfo :
                               /\ ctxInfo[c].browser = b
                               /\ ctxInfo[c].origin = "created"}
            IN  /\ found # << >> =>
                       /\ used = {found[1]}
                       /\ created = {}
                /\ found = << >> =>
                       /\ used = created
                       /\ Cardinality(created) <= 1
                       /\ \A c \in created : ctxInfo[c].identity = "own"
                /\ (browser = b /\ conn.pc = "returned"
                    /\ conn.msg.kind \in {"cdp", "spawned"}) =>
                       /\ context \in used
                       /\ ctxInfo[context].open

\* connect has attached to a browser that has two contexts.
C13_AttachedWithTwoContexts ==
    /\ conn.pc = "returned"
    /\ conn.msg.kind = "cdp"
    /\ browser # NULL
    /\ Len(browserInfo[browser].found) = 2

\* C12: after connect succeeded by any strategy, every page of the session
\* context that the driver has reported (found at connect or created
\* afterwards) is in the registry under an id that has a console buffer
\* and a network buffer.  A page whose newPage() call has not returned yet
\* is not counted before newPage registers it.
C12_SessionPagesTracked ==
    (conn.pc = "returned" /\ context # NULL) =>
        \A h \in openPages \ pageEvQ :
            (pageCtx[h] = context /\ h \notin {c.h : c \in inflight}) =>
                \E id \in DOMAIN pages :
                    /\ pages[id] = h
                    /\ << h, id >> \in trackers
                    /\ id \in DOMAIN consoleLogs
                    /\ id \in DOMAIN networkLogs

\* ------------------------------------------------------------ the pages
\* C14: once the close event of a page has fired, getOrCreatePage never
\* returns that page: the page it returns is open, or is being closed by
\* a closePage call that has not returned yet.
C14_ClosedPageNotReturned ==
    (/\ ret.op \in {"getOrCreatePage", "getOrCreatePage(id)"}
     /\ ret.status = "ok"
     /\ ret.h \notin openPages) =>
        \E c \in inflight : c.op = "closePage" /\ c.h = ret.h

\* C15: getOrCreatePage(id) with an id that is not registered fails with
\* page-not-found, and getOrCreatePage() with no id on a non-empty
\* registry returns the greatest registered id and its page; both create
\* no page and leave the registry, the id counter, the buffers and the
\* pages of the driver as they were.
C15_LookupCreatesNothing ==
    [][/\ (ret'.op = "getOrCreatePage(id)" /\ ret'.id \notin DOMAIN pages) =>
              /\ ret'.status = "PageNotFound"
              /\ ret'.h = 0
              /\ UNCHANGED << registryVars, driverVars, inflight >>
       /\ (/\ ret'.op = "getOrCreatePage"
           /\ DOMAIN pages # {}
           /\ UNCHANGED inflight) =>
              /\ ret'.status = "ok"
              /\ \A id \in DOMAIN pages : id <= ret'.id
              /\ ret'.id \in DOMAIN pages
              /\ ret'.h = pages[ret'.id]
              /\ UNCHANGED << registryVars, driverVars >>]_vars

\* getOrCreatePage(id) failed for an unknown id while the registry held
\* pages under three ids.
C15_UnknownIdRefused ==
    /\ ret.op = "getOrCreatePage(id)"
    /\ ret.status = "PageNotFound"
    /\ Cardinality(DOMAIN pages) >= 3

\* C16: listPages and listPagesWithTitles return normally whatever the
\* page queries do: no id whose query threw is listed, each such id is
\* gone from the registry, and every id still registered is listed.
C16_ListingSkipsBrokenPages ==
    ret.op \in {"listPages", "listPagesWithTitles"} =>
        LET listed == {ret.result[i] : i \in 1 .. Len(ret.result)}
        IN  /\ ret.status = "ok"
            /\ listed \cap ret.threw = {}
            /\ ret.threw \cap DOMAIN pages = {}
            /\ DOMAIN pages \subseteq listed

\* listPagesWithTitles returned a listing of two ids after the query of
\* another page threw.
C16_ListedAroundBrokenPage ==
    /\ ret.op = "listPagesWithTitles"
    /\ ret.threw # {}
    /\ Len(ret.result) >= 2

\* ------------------------------------------------------------ telemetry
\* C17: the sequence getConsoleLogs or getNetworkLogs returned is a copy:
\* a push by the caller onto it changes no buffer, and a console message
\* or a response delivered later does not change what the caller reads in
\* it.
C17_ReadersReturnCopies ==
    [][/\ ret'.op = "push" => UNCHANGED << consoleLogs, networkLogs >>
       /\ (ret'.op \in {"console", "response"} /\ held.kind # None) =>
              HeldValue' = HeldValue]_vars

\* C18: clearConsoleLogs(id) or clearNetworkLogs(id) on a tracked page
\* leaves that buffer empty and every other buffer of either kind as it
\* was, and the next console message or response of the page is appended
\* to the emptied buffer.
C18_ClearIsLocalAndRefills ==
    [][/\ (/\ ret'.op = "clearConsoleLogs"
           /\ ret'.id \in DOMAIN pages
           /\ pages[ret'.id] \in openPages) =>
              /\ DOMAIN consoleLogs' = DOMAIN consoleLogs
              /\ consoleLogs'[ret'.id] = << >>
              /\ \A j \in (DOMAIN consoleLogs) \ {ret'.id} :
                     consoleLogs'[j] = consoleLogs[j]
              /\ networkLogs' = networkLogs
       /\ (/\ ret'.op = "clearNetworkLogs"
           /\ ret'.id \in DOMAIN pages
           /\ pages[ret'.id] \in openPages) =>
              /\ DOMAIN networkLogs' = DOMAIN networkLogs
              /\ networkLogs'[ret'.id] = << >>
              /\ \A j \in (DOMAIN networkLogs) \ {ret'.id} :
                     networkLogs'[j] = networkLogs[j]
              /\ consoleLogs' = consoleLogs
       /\ (ret'.op = "console" /\ ret'.h \in openPages) =>
              \A id \in DOMAIN pages :
                  (pages[id] = ret'.h /\ id \in DOMAIN consoleLogs
                   /\ consoleLogs[id] = << >>) =>
                      /\ id \in DOMAIN consoleLogs'
                      /\ Len(consoleLogs'[id]) = 1
                      /\ consoleLogs'[id][1].timestamp = now'
       /\ (ret'.op = "response" /\ ret'.h \in openPages) =>
              \A id \in DOMAIN pages :
                  (pages[id] = ret'.h /\ id \in DOMAIN networkLogs
                   /\ networkLogs[id] = << >>) =>
                      /\ id \in DOMAIN networkLogs'
                      /\ Len(networkLogs'[id]) = 1
                      /\ networkLogs'[id][1].url = ret'.url
                      /\ networkLogs'[id][1].timestamp = now']_vars

\* A console message was appended to a buffer that had been cleared while
\* the other buffers of the page held entries of before the clearing.
C18_RefilledAfterClear ==
    /\ ret.op = "console"
    /\ \E id \in DOMAIN consoleLogs :
          /\ Len(consoleLogs[id]) = 1
          /\ id \in DOMAIN networkLogs
          /\ Len(networkLogs[id]) >= BufferCap - 1
          /\ \E j \in DOMAIN consoleLogs : Len(consoleLogs[j]) = BufferCap

\* C19: the close event of a page discards both buffers of every id the
\* page is tracked under, and a console message or a response that is
\* delivered for the page after it closed changes no buffer: it appends
\* nothing and creates no buffer.
C19_ClosedPageLogsNothing ==
    [][/\ ret'.op = "close" =>
              \A t \in trackers :
                  t[1] = ret'.h =>
                      /\ t[2] \notin DOMAIN consoleLogs'
                      /\ t[2] \notin DOMAIN networkLogs'
       /\ (ret'.op \in {"console", "response"} /\ ret'.h \notin openPages) =>
              UNCHANGED << consoleLogs, networkLogs >>]_vars

\* C20: a response whose URL has a record in the pending map of the
\* handler is logged with the method and the resource type of the record
\* and with the duration from the recorded request time to the response
\* time; any other response is logged with method GET and no duration;
\* and after every response, logged or not, the pending map holds no
\* record for its URL.
C20_ResponseMatchedByUrl ==
    [][ret'.op = "response" =>
          \A tr \in trackers :
              tr[1] = ret'.h =>
                  /\ ret'.url \notin DOMAIN pending'[tr]
                  /\ (tr[2] \in DOMAIN networkLogs
                      /\ Len(networkLogs[tr[2]]) < BufferCap) =>
                         LET logs  == networkLogs'[tr[2]]
                             entry == logs[Len(logs)]
                             known == ret'.url \in DOMAIN pending[tr]
                         IN  /\ Len(logs) = Len(networkLogs[tr[2]]) + 1
                             /\ entry.url = ret'.url
                             /\ known =>
                                    LET rec == pending[tr][ret'.url]
                                    IN  /\ entry.method = rec.method
                                        /\ entry.resourceType =
                                               rec.resourceType
                                        /\ entry.hasDuration
                                        /\ entry.duration =
                                               now' - rec.timestamp
                             /\ ~known =>
                                    /\ entry.method = "GET"
                                    /\ ~entry.hasDuration
                  /\ (tr[2] \in DOMAIN networkLogs
                      /\ Len(networkLogs[tr[2]]) >= BufferCap) =>
                         networkLogs'[tr[2]] = networkLogs[tr[2]]]_vars

\* A response to a recorded request was logged, with the duration since
\* the request, as the entry that filled the buffer.
C20_MatchedResponseLogged ==
    /\ ret.op = "response"
    /\ \E tr \in trackers :
          /\ tr[1] = ret.h
          /\ tr[2] \in DOMAIN networkLogs
          /\ ret.url \notin DOMAIN pending[tr]
          /\ Len(networkLogs[tr[2]]) = BufferCap
          /\ LET entry == networkLogs[tr[2]][BufferCap]
             IN  /\ entry.hasDuration
                 /\ entry.duration = 1
                 /\ entry.method = "POST"
                 /\ entry.url = ret.url

\* ------------------------------------------------------ route blocking
\* C21: whenever applyRouteBlocking has returned normally, after a
\* reconnection or once more on the same session, the context of the
\* session has exactly one abort rule for every pattern of the
\* blocked-pattern list.
C21_OneRulePerPattern ==
    (ret.op = "applyRouteBlocking" /\ ret.status = "ok") =>
        \A i \in 1 .. Len(blockedPatterns) :
            Cardinality({j \in 1 .. Len(RoutesOf(context)) :
                            RoutesOf(context)[j] = blockedPatterns[i]}) = 1

\* ------------------------------------------------------- storage state
\* C22: when loadStorageState has returned normally, every cookie of the
\* file is a cookie of the session, and for every origin of the file that
\* is the origin of some open page of the session, the local-storage
\* entries of the file are stored for that origin.
C22_LoadReachesMatchingPage ==
    (ret.op = "loadStorageState" /\ ret.status = "ok") =>
        /\ Range(files[StoragePath].cookies) \subseteq JarOf(context)
        /\ \A i \in 1 .. Len(files[StoragePath].origins) :
               LET rec == files[StoragePath].origins[i]
               IN  (\E h \in openPages \ pageEvQ :
                        pageCtx[h] = context /\ OriginOf(h) = rec.origin) =>
                       rec.localStorage \subseteq StoredAt(context, rec.origin)

C24_SampleCountInRange ==
    [][(ret'.op = "humanMouseMove" /\ ret'.status = "ok") =>
          LET m == calls[ret'.id].move
          IN  /\ m.steps = Clamp(StepsOfDistance(m.from, m.to), 5, 25)
              /\ m.i >= 5
              /\ m.i <= 25]_vars

\* C25: the first sample of a path is within 2 px of the start in each
\* coordinate, and the last sample within 2 px of the end, whatever the
\* control points and the jitter.
C25_EndpointsWithinJitter ==
    [][/\ (dev'.kind = "move" /\ dev'.i = 0 /\ dev'.by \in DOMAIN calls') =>
              LET m == calls'[dev'.by].move
              IN  /\ Abs(dev'.x - m.from.x) <= 2
                  /\ Abs(dev'.y - m.from.y) <= 2
       /\ (ret'.op = "humanMouseMove" /\ ret'.status = "ok") =>
              LET m == calls[ret'.id].move
              IN  /\ dev.kind = "move"
                  /\ dev.by = ret'.id
                  /\ Abs(dev.x - m.to.x) <= 2
                  /\ Abs(dev.y - m.to.y) <= 2]_vars

\* humanMouseMove returned from a path of 25 steps whose last sample is
\* one pixel off the target in both coordinates.
C25_LongPathSent ==
    /\ ret.op = "humanMouseMove"
    /\ ret.status = "ok"
    /\ dev.i = 25
    /\ lastMousePos = Pos(1100, 700)
    /\ dev.x = 1101
    /\ dev.y = 699

\* ----------------------------------------------------------------- typing
Within(n, lo, hi) == lo <= n /\ n <= hi

\* C26: humanType sends the characters of the text one by one in their
\* order, the first on the call and each other after the wait of the one
\* before; each keystroke is followed by one wait, whose length is in the
\* range of the character's class or in that range plus 200..500 ms; the
\* call returns after the wait of the last character.
C26_OneKeyOneWaitPerCharacter ==
    [][/\ (dev'.kind = "key" /\ dev' # dev) =>
              /\ dev'.key = calls'[dev'.by].args.text[dev'.i]
              /\ \/ dev'.i = 1 /\ dev'.by \notin DOMAIN calls
                 \/ /\ dev.kind = "wait"
                    /\ dev.by = dev'.by
                    /\ dev'.i = dev.i + 1
       /\ (dev'.kind = "wait" /\ dev' # dev) =>
              /\ dev.kind = "key"
              /\ dev.by = dev'.by
              /\ dev.i = dev'.i
              /\ LET range == CASE dev.key = " " -> << 30, 80 >>
                                [] dev.key \in {".", "\n"} -> << 100, 250 >>
                                [] dev.key = "A" -> << 60, 130 >>
                                [] dev.key = "7" -> << 70, 140 >>
                                [] dev.key = "!" -> << 80, 160 >>
                                [] OTHER -> << 30, 100 >>
                 IN  \/ Within(dev'.ms, range[1], range[2])
                     \/ Within(dev'.ms, range[1] + 200, range[2] + 500)
       /\ (ret'.op = "humanType" /\ ret'.status = "ok") =>
              \/ ret'.id \notin DOMAIN calls
              \/ /\ dev.kind = "wait"
                 /\ dev.by = ret'.id
                 /\ dev.i = Len(calls[ret'.id].args.text)]_vars

\* humanType returned after typing two characters, the second a full stop
\* or a newline followed by the longest wait of its class.
C26_TypedDigitAndStop ==
    /\ ret.op = "humanType"
    /\ ret.status = "ok"
    /\ dev.kind = "wait"
    /\ dev.i = 2
    /\ dev.ms = 250

\* ----------------------------------------------------------------- clicks
\* C27: humanClick moves the target by at most 3 px in each coordinate,
\* sends the whole path to that point, pauses 30..120 ms, clicks once at
\* that same point with the button and click count it was given (left and
\* 1 by default) and 40..120 ms between down and up, pauses 30..120 ms and
\* returns; no sample of the path follows the click.
C27_ClickAfterWholePath ==
    [][/\ (dev'.kind = "click" /\ dev' # dev) =>
              LET call == calls[dev'.by]
                  o    == call.args.options
              IN  /\ call.clicks = 0
                  /\ call.move.i = call.move.steps + 1
                  /\ lastMousePos = Pos(call.move.to.x, call.move.to.y)
                  /\ dev.kind = "wait"
                  /\ dev.by = dev'.by
                  /\ Within(dev.ms, 30, 120)
                  /\ dev'.x = call.move.to.x
                  /\ dev'.y = call.move.to.y
                  /\ Abs(dev'.x - call.args.x) <= 3
                  /\ Abs(dev'.y - call.args.y) <= 3
                  /\ dev'.button =
                         IF "button" \in DOMAIN o THEN o.button ELSE "left"
                  /\ dev'.clickCount =
                         IF "clickCount" \in DOMAIN o THEN o.clickCount ELSE 1
                  /\ Within(dev'.ms, 40, 120)
       /\ (dev'.kind = "move" /\ dev' # dev) =>
              calls'[dev'.by].clicks = 0
       /\ (dev'.kind = "wait" /\ dev' # dev) =>
              /\ Within(dev'.ms, 30, 120)
              /\ \/ dev.kind = "click" /\ dev.by = dev'.by
                 \/ /\ dev.kind = "move"
                    /\ dev.by = dev'.by
                    /\ dev.i = calls[dev.by].move.steps
       /\ (ret'.op = "humanClick" /\ ret'.status = "ok") =>
              /\ calls[ret'.id].clicks = 1
              /\ dev.kind = "wait"
              /\ dev.by = ret'.id]_vars

\* humanClick(page, 300, 100, { button: "right", clickCount: 2 }) has sent
\* its click at (303, 97) and waits after it.
C27_RightDoubleClickSent ==
    /\ 1 \in DOMAIN calls
    /\ calls[1].clicks = 1
    /\ calls[1].args.options # EmptyMap
    /\ dev.kind = "wait"
    /\ pointer = Pos(303, 97)
    /\ lastMousePos = pointer

\* C28: while calls are made one after the other, the first sample of the
\* path of a click that follows another click is within 2 px of the point
\* where that click was made, its jittered target, which is where the path
\* starts from.
C28_PathStartsAtLastClick ==
    [][(dev'.kind = "move" /\ dev'.i = 0 /\ dev' # dev /\ pointer.known) =>
          /\ calls'[dev'.by].move.from = pointer
          /\ Abs(dev'.x - pointer.x) <= 2
          /\ Abs(dev'.y - pointer.y) <= 2]_vars

\* After a click at (97, 103), asked at (100, 100), the click asked at
\* (300, 100) has sent its first sample, at (98, 102).
C28_SecondClickStarted ==
    /\ 1 \in DOMAIN calls
    /\ calls[1].op = "humanClick"
    /\ calls[1].args.x = 300
    /\ calls[1].move.from = Pos(97, 103)
    /\ lastMousePos = Pos(97, 103)
    /\ calls[1].move.i = 1
    /\ dev.kind = "move"
    /\ dev.x = 98
    /\ dev.y = 102

\* -------------------------------------------------------------- scrolling
\* C29: humanScroll sends clamp(|deltaY| / 80, 3, 12) wheel steps, between
\* 3 and 12, each followed by a wait of 20..80 ms, and ends with one pause
\* of 100..300 ms.
C29_WheelStepCount ==
    [][/\ (ret'.op = "humanScroll" /\ ret'.status = "ok") =>
              LET call == calls[ret'.id]
              IN  /\ call.i * 80 = Clamp(Abs(call.args.deltaY), 240, 960)
                  /\ Within(call.i, 3, 12)
                  /\ dev.kind = "wait"
                  /\ dev.by = ret'.id
                  /\ Within(dev.ms, 100, 300)
       /\ (dev.kind = "wheel" /\ dev' # dev) =>
              /\ dev'.kind = "wait"
              /\ dev'.by = dev.by
              /\ Within(dev'.ms, 20, 80)]_vars

\* ------------------------------------------------------- concurrent calls
\* C30: nothing orders the calls on a page.  A call starts its path from
\* the position that is stored, also while another call moves the
\* pointer, and the position is stored only by a call that has sent its
\* whole path, as the target of that call; so a call can start its path
\* from a stored position where the pointer is not.
C30_StartFromStoredPosition ==
    [][/\ (/\ dev'.kind = "move"
           /\ dev'.i = 0
           /\ dev' # dev
           /\ lastMousePos.known) =>
              /\ calls'[dev'.by].move.from = lastMousePos
              /\ calls'[dev'.by].move.jump =
                     (pointer.known /\ Apart(pointer, lastMousePos))
       /\ (lastMousePos' # lastMousePos) =>
              /\ ret'.op = "humanMouseMove"
              /\ ret'.status = "ok"
              /\ calls[ret'.id].move.i = calls[ret'.id].move.steps + 1
              /\ lastMousePos' = Pos(calls[ret'.id].move.to.x,
                                     calls[ret'.id].move.to.y)]_vars

\* Two calls are moving the pointer; the second started its path at the
\* stored position while the first had put the pointer elsewhere.
C30_DiscontinuousPath ==
    \E c, d \in Running :
        /\ c # d
        /\ calls[c].move.jump
        /\ lastMousePos.known
        /\ calls[c].move.from = lastMousePos
        /\ calls[d].move.i >= 2
        /\ Apart(pointer, calls[c].move.from)

\* C40: when humanScroll returns, the number of wheel steps it sent times
\* the share of a step, delta / totalSteps, is the delta it was asked for,
\* for deltaY and for deltaX.
C40_SharesSumToDelta ==
    [][(ret'.op = "humanScroll" /\ ret'.status = "ok") =>
          LET call == calls[ret'.id]
              t80  == TotalSteps80(call.args.deltaY)
          IN  /\ call.i * call.args.deltaY * 80 = call.args.deltaY * t80
              /\ call.i * call.args.deltaX * 80 = call.args.deltaX * t80]_vars

\* ------------------------------------------------------- registry, again
\* C33: no page handle is registered under two ids.
C33_OneIdPerPage ==
    \A i, j \in DOMAIN pages : pages[i] = pages[j] => i = j

\* C34: getOrCreatePage() calls that run at the same time on an empty
\* registry create one page between them.
C34_OnePageForConcurrentCalls ==
    \A c, d \in inflight :
        (c.via = "getOrCreatePage" /\ d.via = "getOrCreatePage") => c.h = d.h

\* --------------------------------------------------------------- shutdown
\* C32: close() never fails, and when it ends the manager holds no context,
\* no browser, no page, no buffer and no process handle, and every
\* process that was spawned has been killed, also when closing the context
\* or the browser threw; close() on a manager that holds nothing changes
\* nothing.
C32_CloseLeavesDisconnected ==
    [][/\ (closing'.pc = "idle" /\ (closing.pc # "idle" \/ closes' # closes))
          => /\ context' = NULL
             /\ browser' = NULL
             /\ chromeProcess' = NULL
             /\ pages' = EmptyMap
             /\ consoleLogs' = EmptyMap
             /\ networkLogs' = EmptyMap
             /\ \A p \in DOMAIN processes' : processes'[p] = "killed"
             /\ ret'.status \in {"none", "ok"}
       /\ (/\ closes' # closes
           /\ context = NULL
           /\ browser = NULL
           /\ chromeProcess = NULL) =>
              /\ closing'.pc = "idle"
              /\ UNCHANGED << managerVars, processes >>]_vars

\* C35: whenever the manager holds no context, the page registry and both
\* telemetry buffer maps are empty, also when a newPage call or a
\* page-created event was in flight while close() ran.
C35_DisconnectedIsEmpty ==
    context = NULL =>
        /\ pages = EmptyMap
        /\ consoleLogs = EmptyMap
        /\ networkLogs = EmptyMap

\* C36: the ids that have a console buffer, the ids that have a network
\* buffer and the ids of the page registry are the same set: a page that
\* left the registry has no buffer, a registered page has both, and
\* clearing the logs of an id creates no buffer.
C36_BuffersMatchRegistry ==
    /\ DOMAIN consoleLogs = DOMAIN networkLogs
    /\ DOMAIN consoleLogs = DOMAIN pages

\* C37: whenever the manager is connected and no command is in progress,
\* the patterns that have an abort rule on the context of the session are
\* the patterns of the blocked-pattern list: nothing is blocked once the
\* list was cleared, and every pattern of the list is blocked after a
\* connect by any strategy.
C37_RulesMatchList ==
    (context # NULL /\ Busy = 0) =>
        Range(RoutesOf(context)) = Range(blockedPatterns)

\* C38: a connect call that fails leaves the session state as it was
\* before the call.  For the first connect of a manager, which starts
\* with no session: when it has thrown, no browser and no context is set,
\* no page is registered, the id counter is at its initial value and no
\* process handle is stored.
C38_FailedConnectChangesNothing ==
    (connects = 1 /\ conn.pc = "thrown") =>
        /\ browser = NULL
        /\ context = NULL
        /\ pages = EmptyMap
        /\ nextPageId = 1
        /\ chromeProcess = NULL

\* C39: a browser_connect command that supplies a profile directory and
\* no attach URL attempts the persistent launch first, also when an
\* earlier browser_connect command supplied an attach URL.
C39_ProfileRequestLaunchesProfile ==
    [][\A a \in ConnectArgs :
          (a.userDataDir # None /\ a.cdpUrl = None /\ BrowserConnect(a)) =>
              conn'.attempts[1].s = "persistent"]_vars

\* C31: every command handler catches an error raised by its navigation,
\* page-management or interaction step and returns it as a failed result:
\* no handler ends rejected with the error.
C31_HandlersCatchErrors ==
    ret.op \in PageTools \cup {"new_page"} => ret.status \in {"ok", "failed"}

====
